---- MODULE Spec2Model ----
(***************************************************************************)
(* Model of boostgo/fsx: the advisory lock manager of file.go (LockFile,   *)
(* FileLock.Unlock, FileLock.Write) run by concurrent goroutines, and the  *)
(* depth-tracking walker walkWithDepth with the FindFiles epilogue.        *)
(***************************************************************************)
EXTENDS Integers, Sequences, FiniteSets, TLC

(***************************************************************************)
(* Bounds                                                                  *)
(***************************************************************************)
\* number of goroutines racing for one path in the concurrent-acquire test
NumG == 3
\* number of goroutines that call LockFile/Unlock/Write freely
NumCallers == 2
\* total number of LockFile/Unlock/Write calls made in one run
MaxCalls == 4

\* largest number of entries (root included) of a walked tree
MaxNodes == 4

Goroutines == 1..NumG
Callers == 1..NumCallers
\* the lock paths
Paths == {"a.lock", "b.lock"}
LockIds == 1..MaxCalls
\* payloads handed to Write: different lengths, different bytes
Data == {<<1>>, <<2, 2>>}

\* error values (errors.go) and the results a call can return
ErrFileAlreadyLocked == "ErrFileAlreadyLocked"
ErrFileNotLocked == "ErrFileNotLocked"
ErrFileLock == "ErrFileLock"
ErrIO == "ioerr"
Ok == "ok"
Pending == "pending"
None == "none"

\* what a visitor returns: nil, filepath.SkipDir, io.EOF, any other error
Nil == "nil"
SkipDir == "SkipDir"
EOF == "EOF"
OtherErr == "err"
Signals == {Nil, SkipDir, EOF, OtherErr}
ErrSearchFiles == "ErrSearchFiles"
ErrInvalidPattern == "ErrInvalidPattern"
ErrInvalidRegex == "ErrInvalidRegex"
ErrSearchContent == "ErrSearchContent"

VARIABLES
  lockManager,  \* registry: path -> FileLock id, 0 = no entry
  lockMu,       \* global registry mutex: 0 = free, else the holding goroutine
  fl,           \* the FileLock objects allocated so far: id -> struct
  disk,         \* path -> [exists, data]: the backing files
  pc,           \* goroutine -> position in the call it is running
  arg,          \* goroutine -> [path, lock, data] of the running call
  result,       \* goroutine -> what its last call returned
  calls,        \* number of calls started so far
  held,         \* history: locks returned by LockFile and not yet deleted by Unlock
  lastW,        \* history: lock id -> outcome of the Write that took fl.mu last
  unlocks       \* history: lock id -> number of Unlock calls that returned nil

lockVars == <<lockManager, lockMu, fl, disk, pc, arg, result, calls, held, lastW, unlocks>>

VARIABLES
  tree,         \* the directory tree walked: node -> [parent, dir]; node 1 is the root
  wpc,          \* position of the walk: "off", "call", "readdir", "loop", "ret", "done"
  wcur,         \* [node, depth]: arguments of the running walkWithDepth call
  wstack,       \* enclosing walkWithDepth calls, each in its loop: [node, depth, rest]
  wret,         \* error value the last walkWithDepth call returned
  visited,      \* history: the visitor's invocations, in order: [node, depth, err, sig]
  results,      \* the results slice the visitor appends to
  fret,         \* what the search function returned: [results, err]
  srch          \* the search call: [kind, pattern, opts, ...]; kind "any" is a
                \* walk with an arbitrary visitor

walkVars == <<tree, wpc, wcur, wstack, wret, visited, results, fret, srch>>

VARIABLES
  cleft,        \* a directory tree on disk: relative path -> entry or Missing;
                \* left of CompareDirectories, src of SyncDirectories, the
                \* root of the operations on one tree
  cright,       \* a second tree on disk: right of CompareDirectories, dst of
                \* SyncDirectories
  cpc,          \* position of CompareDirectories: "off", "call", "walkLeft",
                \* "walkRight", "compare", "added", "ret", "done"
  leftFiles,    \* map relPath -> info collected from left
  rightFiles,   \* map relPath -> info collected from right
  todo,         \* keys the running range loop has not yielded yet
  differences,  \* the differences slice
  cret,         \* what CompareDirectories returned: [diffs, err]
  cprev         \* history: what the call on the same trees in the other
                \* order returned, NoCompare before it

cmpVars == <<cleft, cright, cpc, leftFiles, rightFiles, todo, differences, cret, cprev>>

VARIABLES
  dpc,          \* position of the running directory operation: "off", or
                \* "sync.*", "dups.*", "clean.*", "size.*", or "done"
  pending,      \* the running filepath.Walk: the paths it still has to reach
  srcFiles,     \* SyncDirectories: the set of relative paths collected from src
  fileHashes,   \* FindDuplicateFiles: map digest -> sequence of paths
  dirs,         \* CleanEmptyDirectories: the directories collected, then sorted
  totalSize,    \* CalculateDirectorySize: the running sum
  dret,         \* what the last directory operation returned: [val, err]
  dcalls,       \* number of directory operations that have returned
  dfault,       \* history: an I/O operation failed in one of the calls so far
  initial       \* history: the trees as they were when the last call began

dirVars == <<dpc, pending, srcFiles, fileHashes, dirs, totalSize, dret, dcalls, dfault, initial>>

vars == <<lockVars, walkVars, cmpVars, dirVars>>

NoArg == [op |-> None, path |-> None, lock |-> 0, data |-> <<>>]

\* mutant: LockFile builds the FileLock without isLocked: true
NewFileLock_NotMarked(p) == [path |-> p, file |-> TRUE, pos |-> 0, mu |-> 0, isLocked |-> FALSE]

\* struct FileLock{path, file, mu, isLocked}; file = the handle is open,
\* pos = the handle's file offset, mu = 0 (free) or the holding goroutine
NewFileLock(p) == [path |-> p, file |-> TRUE, pos |-> 0, mu |-> 0, isLocked |-> TRUE]

NoWrite == [data |-> <<>>, st |-> None]

LockInit ==
  /\ lockManager = [p \in Paths |-> 0]
  /\ lockMu = 0
  /\ fl = <<>>
  /\ disk = [p \in Paths |-> [exists |-> FALSE, data |-> <<>>]]
  /\ pc = [g \in Goroutines |-> "idle"]
  /\ arg = [g \in Goroutines |-> NoArg]
  /\ result = [g \in Goroutines |-> None]
  /\ calls = 0
  /\ held = {}
  /\ lastW = [l \in LockIds |-> NoWrite]
  /\ unlocks = [l \in LockIds |-> 0]

\* ---------------------------------------------------------------- helpers

\* a goroutine returns from its call with value r; of the call's arguments
\* only the name of the operation is remembered
Return(g, r) ==
  /\ pc' = [pc EXCEPT ![g] = "idle"]
  /\ result' = [result EXCEPT ![g] = r]
  /\ arg' = [arg EXCEPT ![g] = [NoArg EXCEPT !.op = arg[g].op]]
  /\ UNCHANGED <<walkVars, cmpVars, dirVars>>

\* a goroutine moves on inside its call
Goto(g, label) ==
  /\ pc' = [pc EXCEPT ![g] = label]
  /\ UNCHANGED <<arg, result, walkVars, cmpVars, dirVars>>

\* a goroutine starts a call
Call(g, label, a) ==
  /\ pc[g] = "idle"
  /\ calls < MaxCalls
  /\ calls' = calls + 1
  /\ pc' = [pc EXCEPT ![g] = label]
  /\ arg' = [arg EXCEPT ![g] = a]
  /\ result' = [result EXCEPT ![g] = Pending]
  /\ UNCHANGED <<walkVars, cmpVars, dirVars>>

\* mutant: LockFile and Unlock do not take the registry mutex
LockMuFree_NoMutex == TRUE

\* file.go:525, 591  lockMu.Lock() blocks while the registry mutex is held
LockMuFree == lockMu = 0

\* mutant: Unlock and Write do not take the lock's mutex
FlMuFree_NoMutex(l) == TRUE

\* file.go:571, 601  fl.mu.Lock() blocks while the lock's mutex is held
FlMuFree(l) == fl[l].mu = 0

\* mutant: LockFile returns without the deferred lockMu.Unlock()
DeferredUnlock_Missing(m) == m

\* file.go:526  defer lockMu.Unlock(): the registry mutex after LockFile returns
DeferredUnlock(m) == 0

\* os.File.Write at the handle's offset: bytes before the offset are kept
\* (zero-filled past the end), the data overwrites from the offset on
WriteAt(content, pos, data) ==
  LET before == [i \in 1..pos |-> IF i <= Len(content) THEN content[i] ELSE 0]
      after == SubSeq(content, pos + Len(data) + 1, Len(content))
  IN before \o data \o after

\* ---------------------------------------------------------------- LockFile

\* mutant: LockFile registers without looking at the registry
AlreadyLocked_NoCheck(p) == FALSE

\* file.go:529  exists && existingLock.isLocked
AlreadyLocked(p) == lockManager[p] # 0 /\ fl[lockManager[p]].isLocked

CallLockFile(g, p) ==
  /\ Call(g, "lf_lock", [NoArg EXCEPT !.op = "LockFile", !.path = p])
  /\ UNCHANGED <<lockManager, lockMu, fl, disk, held, lastW, unlocks>>

\* file.go:525  lockMu.Lock()
LockFile_Lock(g) ==
  /\ pc[g] = "lf_lock"
  /\ LockMuFree
  /\ lockMu' = g
  /\ Goto(g, "lf_check")
  /\ UNCHANGED <<lockManager, fl, disk, calls, held, lastW, unlocks>>

\* mutant: a LockFile that finds the path locked drops the registry entry
LockFile_Check_Evicts(g) ==
  /\ pc[g] = "lf_check"
  /\ IF AlreadyLocked(arg[g].path)
       THEN /\ Return(g, ErrFileAlreadyLocked)
            /\ lockMu' = DeferredUnlock(lockMu)
            /\ lockManager' = [lockManager EXCEPT ![arg[g].path] = 0]
       ELSE /\ Goto(g, "lf_open")
            /\ UNCHANGED <<lockMu, lockManager>>
  /\ UNCHANGED <<fl, disk, calls, held, lastW, unlocks>>

\* file.go:528-535  the registry check; the deferred lockMu.Unlock() on return
LockFile_Check(g) ==
  /\ pc[g] = "lf_check"
  /\ IF AlreadyLocked(arg[g].path)
       THEN /\ Return(g, ErrFileAlreadyLocked)
            /\ lockMu' = DeferredUnlock(lockMu)
       ELSE /\ Goto(g, "lf_open")
            /\ UNCHANGED lockMu
  /\ UNCHANGED <<lockManager, fl, disk, calls, held, lastW, unlocks>>

\* file.go:537-566  MkdirAll, OpenFile(O_CREATE|O_RDWR), register, return
LockFile_Open(g) ==
  /\ pc[g] = "lf_open"
  /\ \E ioOk \in BOOLEAN :
       IF ~ioOk
         THEN /\ Return(g, ErrFileLock)
              /\ UNCHANGED <<lockManager, fl, disk, held>>
         ELSE LET p == arg[g].path
                  l == Len(fl) + 1
              IN /\ disk' = [disk EXCEPT ![p].exists = TRUE]
                 /\ fl' = Append(fl, NewFileLock(p))
                 /\ lockManager' = [lockManager EXCEPT ![p] = l]
                 /\ held' = held \cup {l}
                 /\ Return(g, Ok)
  /\ lockMu' = DeferredUnlock(lockMu)
  /\ UNCHANGED <<calls, lastW, unlocks>>

\* ---------------------------------------------------------------- Unlock

CallUnlock(g, l) ==
  /\ l \in DOMAIN fl
  /\ Call(g, "ul_lock", [NoArg EXCEPT !.op = "Unlock", !.lock = l, !.path = fl[l].path])
  /\ UNCHANGED <<lockManager, lockMu, fl, disk, held, lastW, unlocks>>

\* file.go:571  fl.mu.Lock()
Unlock_Lock(g) ==
  /\ pc[g] = "ul_lock"
  /\ FlMuFree(arg[g].lock)
  /\ fl' = [fl EXCEPT ![arg[g].lock].mu = g]
  /\ Goto(g, "ul_check")
  /\ UNCHANGED <<lockManager, lockMu, disk, calls, held, lastW, unlocks>>

\* mutant: Unlock and Write do not test isLocked
NotLocked_NoCheck(l) == FALSE

\* file.go:574 and file.go:604  if !fl.isLocked
NotLocked(l) == ~fl[l].isLocked

\* file.go:574-580  not-locked check; the deferred fl.mu.Unlock() on return
Unlock_Check(g) ==
  /\ pc[g] = "ul_check"
  /\ IF NotLocked(arg[g].lock)
       THEN /\ Return(g, ErrFileNotLocked)
            /\ fl' = [fl EXCEPT ![arg[g].lock].mu = 0]
       ELSE /\ Goto(g, "ul_close")
            /\ UNCHANGED fl
  /\ UNCHANGED <<lockManager, lockMu, disk, calls, held, lastW, unlocks>>

\* file.go:582-589  fl.file.Close(): the handle is gone afterwards whether or
\* not Close reports an error; closing a closed handle always fails
Unlock_Close(g) ==
  /\ pc[g] = "ul_close"
  /\ LET l == arg[g].lock
     IN \E ioOk \in BOOLEAN :
          IF ioOk /\ fl[l].file
            THEN /\ fl' = [fl EXCEPT ![l].file = FALSE]
                 /\ Goto(g, "ul_delete")
            ELSE /\ fl' = [fl EXCEPT ![l].file = FALSE, ![l].mu = 0]
                 /\ Return(g, ErrFileLock)
  /\ UNCHANGED <<lockManager, lockMu, disk, calls, held, lastW, unlocks>>

\* mutant: Unlock empties the registry
DeleteEntry_All(reg, l) == [p \in DOMAIN reg |-> 0]

\* file.go:592  delete(lockManager, fl.path)
DeleteEntry(reg, l) == [reg EXCEPT ![fl[l].path] = 0]

\* file.go:591-593  lockMu.Lock(); delete(lockManager, fl.path); lockMu.Unlock()
Unlock_Delete(g) ==
  /\ pc[g] = "ul_delete"
  /\ LockMuFree
  /\ lockManager' = DeleteEntry(lockManager, arg[g].lock)
  /\ held' = held \ {arg[g].lock}
  /\ Goto(g, "ul_mark")
  /\ UNCHANGED <<lockMu, fl, disk, calls, lastW, unlocks>>

\* file.go:595-596  fl.isLocked = false; return nil (fl.mu released by defer)
Unlock_Mark(g) ==
  /\ pc[g] = "ul_mark"
  /\ fl' = [fl EXCEPT ![arg[g].lock].isLocked = FALSE, ![arg[g].lock].mu = 0]
  /\ unlocks' = [unlocks EXCEPT ![arg[g].lock] = @ + 1]
  /\ Return(g, Ok)
  /\ UNCHANGED <<lockManager, lockMu, disk, calls, held, lastW>>

\* ---------------------------------------------------------------- Write

CallWrite(g, l, d) ==
  /\ l \in DOMAIN fl
  /\ Call(g, "wr_lock", [op |-> "Write", path |-> fl[l].path, lock |-> l, data |-> d])
  /\ UNCHANGED <<lockManager, lockMu, fl, disk, held, lastW, unlocks>>

\* file.go:601  fl.mu.Lock()
Write_Lock(g) ==
  /\ pc[g] = "wr_lock"
  /\ FlMuFree(arg[g].lock)
  /\ fl' = [fl EXCEPT ![arg[g].lock].mu = g]
  /\ lastW' = [lastW EXCEPT ![arg[g].lock] = [data |-> arg[g].data, st |-> Pending]]
  /\ Goto(g, "wr_check")
  /\ UNCHANGED <<lockManager, lockMu, disk, calls, held, unlocks>>

\* a Write returns r: the deferred fl.mu.Unlock(), and the history of the lock
WriteReturn(g, r) ==
  /\ Return(g, r)
  /\ fl' = [fl EXCEPT ![arg[g].lock].mu = 0]
  /\ lastW' = [lastW EXCEPT ![arg[g].lock].st = r]

\* file.go:604-610  not-locked check
Write_Check(g) ==
  /\ pc[g] = "wr_check"
  /\ IF NotLocked(arg[g].lock)
       THEN WriteReturn(g, ErrFileNotLocked)
       ELSE /\ Goto(g, "wr_trunc")
            /\ UNCHANGED <<fl, lastW>>
  /\ UNCHANGED <<lockManager, lockMu, disk, calls, held, unlocks>>

\* file.go:613-615  fl.file.Truncate(0): fails on a closed handle
Write_Truncate(g) ==
  /\ pc[g] = "wr_trunc"
  /\ LET l == arg[g].lock
     IN \E ioOk \in BOOLEAN :
          IF ioOk /\ fl[l].file
            THEN /\ disk' = [disk EXCEPT ![fl[l].path].data = <<>>]
                 /\ Goto(g, "wr_seek")
                 /\ UNCHANGED <<fl, lastW>>
            ELSE /\ WriteReturn(g, ErrIO)
                 /\ UNCHANGED disk
  /\ UNCHANGED <<lockManager, lockMu, calls, held, unlocks>>

\* file.go:617-619  fl.file.Seek(0, 0)
Write_Seek(g) ==
  /\ pc[g] = "wr_seek"
  /\ LET l == arg[g].lock
     IN \E ioOk \in BOOLEAN :
          IF ioOk /\ fl[l].file
            THEN /\ fl' = [fl EXCEPT ![l].pos = 0]
                 /\ Goto(g, "wr_write")
                 /\ UNCHANGED lastW
            ELSE WriteReturn(g, ErrIO)
  /\ UNCHANGED <<lockManager, lockMu, disk, calls, held, unlocks>>

\* file.go:621-623  fl.file.Write(data)
Write_Write(g) ==
  /\ pc[g] = "wr_write"
  /\ LET l == arg[g].lock
     IN \E ioOk \in BOOLEAN :
          IF ioOk /\ fl[l].file
            THEN /\ disk' = [disk EXCEPT ![fl[l].path].data = WriteAt(@, fl[l].pos, arg[g].data)]
                 /\ fl' = [fl EXCEPT ![l].pos = @ + Len(arg[g].data)]
                 /\ Goto(g, "wr_sync")
                 /\ UNCHANGED lastW
            ELSE /\ WriteReturn(g, ErrIO)
                 /\ UNCHANGED disk
  /\ UNCHANGED <<lockManager, lockMu, calls, held, unlocks>>

\* file.go:625  return fl.file.Sync()
Write_Sync(g) ==
  /\ pc[g] = "wr_sync"
  /\ \E ioOk \in BOOLEAN : WriteReturn(g, IF ioOk THEN Ok ELSE ErrIO)
  /\ UNCHANGED <<lockManager, lockMu, disk, calls, held, unlocks>>

\* ---------------------------------------------------------------- lock manager

LockNext ==
  \E g \in Callers :
    \/ \E p \in Paths : CallLockFile(g, p)
    \/ LockFile_Lock(g)
    \/ LockFile_Check(g)
    \/ LockFile_Open(g)
    \/ \E l \in LockIds : CallUnlock(g, l)
    \/ Unlock_Lock(g)
    \/ Unlock_Check(g)
    \/ Unlock_Close(g)
    \/ Unlock_Delete(g)
    \/ Unlock_Mark(g)
    \/ \E l \in LockIds, d \in Data : CallWrite(g, l, d)
    \/ Write_Lock(g)
    \/ Write_Check(g)
    \/ Write_Truncate(g)
    \/ Write_Seek(g)
    \/ Write_Write(g)
    \/ Write_Sync(g)

\* no walk runs while the lock manager is exercised
WalkOff ==
  /\ tree = <<>>
  /\ wpc = "off"
  /\ wcur = [node |-> 0, depth |-> 0]
  /\ wstack = <<>>
  /\ wret = None
  /\ visited = <<>>
  /\ results = <<>>
  /\ fret = None
  /\ srch = [kind |-> "off"]

\* CompareDirectories has not returned
NoCompare == [diffs |-> <<>>, err |-> None]

\* no comparison runs while the lock manager or the walker is exercised
CompareOff ==
  /\ cleft = <<>>
  /\ cright = <<>>
  /\ cpc = "off"
  /\ leftFiles = <<>>
  /\ rightFiles = <<>>
  /\ todo = {}
  /\ differences = <<>>
  /\ cret = NoCompare
  /\ cprev = NoCompare

\* no directory operation has returned
NoReturn == [op |-> None, val |-> None, err |-> None]

\* no directory operation runs
DirOff ==
  /\ dpc = "off"
  /\ pending = <<>>
  /\ srcFiles = {}
  /\ fileHashes = <<>>
  /\ dirs = <<>>
  /\ totalSize = 0
  /\ dret = NoReturn
  /\ dcalls = 0
  /\ dfault = FALSE
  /\ initial = <<>>

Init == LockInit /\ WalkOff /\ CompareOff /\ DirOff

Next == LockNext

Spec == Init /\ [][Next]_vars

\* file_advanced_test.go:380-419  ConcurrentFileLocks: every goroutine calls
\* LockFile once, all on the same path, and nothing releases the lock
ConcurrentPath == "a.lock"

AcquireOnce(g) ==
  /\ result[g] = None
  /\ CallLockFile(g, ConcurrentPath)

AcquireNext ==
  \E g \in Goroutines :
    \/ AcquireOnce(g)
    \/ LockFile_Lock(g)
    \/ LockFile_Check(g)
    \/ LockFile_Open(g)

SpecAcquire == Init /\ [][AcquireNext]_vars

(***************************************************************************)
(* The depth-tracking walker                                               *)
(***************************************************************************)
\* the trees walked: entries 1..n, entry 1 the root, every other entry the
\* child of a directory with a smaller number; os.ReadDir lists a directory
\* sorted by name, here by number. dir is info.IsDir() of the info that
\* part_003:541-552 ends up with (os.Lstat, or os.Stat for a symlink that is
\* followed)
IsTree(t) ==
  /\ t[1].parent = 0
  /\ \A i \in 2..Len(t) : t[i].parent \in 1..(i - 1) /\ t[t[i].parent].dir

Trees ==
  UNION {{t \in [1..n -> [parent : 0..(n - 1), dir : BOOLEAN]] : IsTree(t)} : n \in 1..MaxNodes}

Nodes == DOMAIN tree

IsDir(n) == tree[n].dir

RECURSIVE SortedSeq(_)
SortedSeq(S) ==
  IF S = {} THEN <<>>
  ELSE LET m == CHOOSE x \in S : \A y \in S : x <= y
       IN <<m>> \o SortedSeq(S \ {m})

\* part_003:566  os.ReadDir(root)
ReadDir(n) == SortedSeq({c \in Nodes : tree[c].parent = n})

\* mutant: the recursive call passes currentDepth on unchanged
ChildDepth_Same(d) == d

\* part_003:573  currentDepth+1
ChildDepth(d) == d + 1

\* mutant: the directory loop treats io.EOF like any other error
StopsLoop_Never(err) == FALSE

\* mutant: the directory loop hands every error of a child up
StopsLoop_Always(err) == TRUE

\* part_003:575  if err == io.EOF { return err }
StopsLoop(err) == err = EOF

\* mutant: filepath.SkipDir from the visitor is not recognised
SkipsSubtree_Never(n, sig) == FALSE

\* part_003:556  if info.IsDir() && err == filepath.SkipDir { return nil }
SkipsSubtree(n, sig) == IsDir(n) /\ sig = SkipDir

\* mutant: FindFiles reports io.EOF as a failure
SearchFailed_OnStop(err) == err # Nil

\* part_003:124  if err != nil && err != io.EOF
SearchFailed(err) == err # Nil /\ err # EOF

(***************************************************************************)
(* The search engine: names, patterns and the visitors of the entry points *)
(***************************************************************************)
\* strings are sequences of characters
Lower == [c \in {".", "B", "a", "b", "c", "d", "e", "f", "x", "y", " ", "*", "?", "[", "("} |->
           IF c = "B" THEN "b" ELSE c]

\* strings.ToLower
ToLower(str) == [i \in DOMAIN str |-> Lower[str[i]]]

\* path/filepath.Match on names without a separator: * is any run of
\* characters, ? any one character, every other character itself
RECURSIVE GlobMatch(_, _)
GlobMatch(pat, name) ==
  IF pat = <<>> THEN name = <<>>
  ELSE IF Head(pat) = "*"
         THEN GlobMatch(Tail(pat), name) \/ (name # <<>> /\ GlobMatch(pat, Tail(name)))
  ELSE IF Head(pat) = "?"
         THEN name # <<>> /\ GlobMatch(Tail(pat), Tail(name))
  ELSE name # <<>> /\ Head(name) = Head(pat) /\ GlobMatch(Tail(pat), Tail(name))

\* filepath.ErrBadPattern: a character class that is opened and never closed
\* (no pattern here holds a "]")
Malformed(pat) == \E i \in DOMAIN pat : pat[i] = "["

\* mutant: matchPattern reports a malformed pattern as "no match"
MatchPattern_NoError(name, pattern, caseSensitive) ==
  LET n == IF caseSensitive THEN name ELSE ToLower(name)
      p == IF caseSensitive THEN pattern ELSE ToLower(pattern)
  IN [matched |-> ~Malformed(p) /\ GlobMatch(p, n), err |-> Nil]

\* part_003:587-607  matchPattern
MatchPattern(name, pattern, caseSensitive) ==
  LET n == IF caseSensitive THEN name ELSE ToLower(name)
      p == IF caseSensitive THEN pattern ELSE ToLower(pattern)
  IN IF Malformed(p)
       THEN [matched |-> FALSE, err |-> ErrInvalidPattern]
       ELSE [matched |-> GlobMatch(p, n), err |-> Nil]

\* part_003:610-612  isHidden
IsHidden(name) == name # <<>> /\ Head(name) = "."

\* strings.Contains
Contains(str, sub) ==
  \E i \in 0..(Len(str) - Len(sub)) : SubSeq(str, i + 1, i + Len(sub)) = sub

\* strings.Fields: the maximal runs of non-space characters
RECURSIVE Fields(_)
Fields(str) ==
  IF str = <<>> THEN <<>>
  ELSE IF Head(str) = " " THEN Fields(Tail(str))
  ELSE LET ends == {k \in 1..Len(str) : str[k] = " "}
           k == IF ends = {} THEN Len(str) + 1
                ELSE CHOOSE x \in ends : \A y \in ends : x <= y
       IN <<SubSeq(str, 1, k - 1)>> \o Fields(SubSeq(str, k, Len(str)))

\* the visitor's verdict "go on to the next check"
Pass == "pass"

\* mutant: the depth limit is taken as exclusive
TooDeep_Exclusive(d) == srch.opts.maxDepth >= 0 /\ d >= srch.opts.maxDepth

\* part_003:51  opts.maxDepth >= 0 && depth > opts.maxDepth
TooDeep(d) == srch.opts.maxDepth >= 0 /\ d > srch.opts.maxDepth

\* mutant: entries at the minimum depth itself are rejected
TooShallow_Inclusive(d) == d <= srch.opts.minDepth

\* part_003:57  depth < opts.minDepth
TooShallow(d) == d < srch.opts.minDepth

\* mutant: the cap is compared with > (one result too many)
LimitReached_OffByOne(found) == srch.opts.limitResults > 0 /\ found > srch.opts.limitResults

\* part_003:62  opts.limitResults > 0 && resultsFound >= opts.limitResults
LimitReached(found) == srch.opts.limitResults > 0 /\ found >= srch.opts.limitResults

\* the answer of a directory-or-file rejection: skip a directory, pass over a file
Reject(n) == IF IsDir(n) THEN SkipDir ELSE Nil

\* part_003:46-72 (and 167-193, 236-262, 341-367, 407-433, 473-499): the
\* checks every entry point's visitor starts with; resultsFound counts the
\* appends to results, so it is Len(results)
Prefix(n, d, e) ==
  IF e # None THEN OtherErr
  ELSE IF TooDeep(d) THEN Reject(n)
  ELSE IF TooShallow(d) THEN Nil
  ELSE IF LimitReached(Len(results)) THEN EOF
  ELSE IF srch.opts.ignoreHidden /\ IsHidden(tree[n].name) THEN Reject(n)
  ELSE Pass

\* part_003:75-86 and 91-99: a pattern list is scanned in order up to the
\* first pattern that is malformed ("err") or matches ("hit")
RECURSIVE ScanPatterns(_, _)
ScanPatterns(name, pats) ==
  IF pats = <<>> THEN "none"
  ELSE LET m == MatchPattern(name, Head(pats), srch.opts.caseSensitive)
       IN IF m.err # Nil THEN "err"
          ELSE IF m.matched THEN "hit"
          ELSE ScanPatterns(name, Tail(pats))

\* mutant: the exclude list is not consulted
Excluded_Ignored(name) == "none"

\* part_003:75-86  for _, excludePattern := range opts.excludePatterns
Excluded(name) == ScanPatterns(name, srch.opts.excludePatterns)

\* mutant: the include list is not consulted
Included_Ignored(name) == "hit"

\* part_003:89-104  if len(opts.includePatterns) > 0
Included(name) ==
  IF Len(srch.opts.includePatterns) > 0
    THEN ScanPatterns(name, srch.opts.includePatterns)
    ELSE "hit"

\* what a visitor answers: the signal it returns and whether it appended a
\* result (line, text: the matching line of a content search, else 0, <<>>)
Answer(sig, rec, line, text) == [sig |-> sig, rec |-> rec, line |-> line, text |-> text]

Plain(sig) == Answer(sig, FALSE, 0, <<>>)

\* part_003:74-121  FindFiles' visitor after the common checks
NameVisitor(n) ==
  LET name == tree[n].name
      ex == Excluded(name)
      inc == Included(name)
      m == MatchPattern(name, srch.pattern, srch.opts.caseSensitive)
  IN IF ex = "err" THEN Plain(ErrInvalidPattern)
     ELSE IF ex = "hit" THEN Plain(Reject(n))
     ELSE IF inc = "err" THEN Plain(ErrInvalidPattern)
     ELSE IF inc = "none" THEN Plain(Nil)
     ELSE IF m.err # Nil THEN Plain(ErrInvalidPattern)
     ELSE Answer(Nil, m.matched /\ ~IsDir(n), 0, <<>>)

\* part_003:146-150, 195  the compiled expression here is one literal
\* character: it matches the names that contain it, under (?i) whatever the case
RegexMatch(name) ==
  IF srch.opts.caseSensitive
    THEN Contains(name, srch.pattern)
    ELSE Contains(ToLower(name), ToLower(srch.pattern))

\* part_003:195-204  FindFilesByRegex' visitor after the common checks
RegexVisitor(n) == Answer(Nil, RegexMatch(tree[n].name) /\ ~IsDir(n), 0, <<>>)

\* part_003:276-294  does the line hold the search string
Found(line) ==
  LET searchLine == IF srch.opts.caseSensitive THEN line ELSE ToLower(line)
      searchPattern == IF srch.opts.caseSensitive THEN srch.pattern ELSE ToLower(srch.pattern)
      words == Fields(searchLine)
  IN IF srch.opts.wholeWord
       THEN \E w \in DOMAIN words : words[w] = searchPattern
       ELSE Contains(searchLine, searchPattern)

\* mutant: the scan of a file reports its last matching line
FirstFound_Last(lines) ==
  LET hits == {k \in DOMAIN lines : Found(lines[k])}
  IN IF hits = {} THEN 0 ELSE CHOOSE k \in hits : \A j \in hits : j <= k

\* part_003:275-312  for lineNum, line := range lines ... break: the number
\* (from 1) of the first line that holds the search string, 0 when none does
FirstFound(lines) ==
  LET hits == {k \in DOMAIN lines : Found(lines[k])}
  IN IF hits = {} THEN 0 ELSE CHOOSE k \in hits : \A j \in hits : k <= j

\* part_003:264-315  FindFilesByContent's visitor after the common checks;
\* readOk: ReadFileLines succeeded
ContentVisitor(n, readOk) ==
  IF IsDir(n) \/ ~tree[n].text THEN Plain(Nil)
  ELSE IF ~readOk THEN Plain(Nil)
  ELSE LET k == FirstFound(tree[n].lines)
       IN IF k = 0 THEN Plain(Nil)
          ELSE Answer(IF LimitReached(Len(results) + 1) THEN EOF ELSE Nil,
                      TRUE, k, tree[n].lines[k])

\* part_003:369-379  FindFilesBySize's visitor after the common checks
SizeVisitor(n) ==
  Answer(Nil,
         /\ ~IsDir(n)
         /\ srch.minSize < 0 \/ tree[n].size >= srch.minSize
         /\ srch.maxSize < 0 \/ tree[n].size <= srch.maxSize,
         0, <<>>)

\* part_003:435-445  FindFilesByTime's visitor after the common checks; the
\* zero time.Time is 0, every modification time is later
TimeVisitor(n) ==
  Answer(Nil,
         /\ ~IsDir(n)
         /\ srch.after = 0 \/ tree[n].mtime > srch.after
         /\ srch.before = 0 \/ tree[n].mtime < srch.before,
         0, <<>>)

\* part_003:501-520  FindFilesByPermissions' visitor after the common
\* checks; a mode is the set of its permission bits
PermVisitor(n) ==
  Answer(Nil,
         /\ ~IsDir(n)
         /\ IF srch.exact THEN tree[n].perm = srch.mode
                          ELSE srch.mode \subseteq tree[n].perm,
         0, <<>>)

\* the answers the visitor of the running search can give for entry n at
\* depth d when called with error e
Answers(n, d, e) ==
  LET pre == Prefix(n, d, e)
  IN IF pre # Pass THEN {Plain(pre)}
     ELSE CASE srch.kind = "name" -> {NameVisitor(n)}
            [] srch.kind = "regex" -> {RegexVisitor(n)}
            [] srch.kind = "content" ->
                 {ContentVisitor(n, readOk) : readOk \in IF srch.faulty THEN BOOLEAN ELSE {TRUE}}
            [] srch.kind = "size" -> {SizeVisitor(n)}
            [] srch.kind = "time" -> {TimeVisitor(n)}
            [] srch.kind = "perm" -> {PermVisitor(n)}

WalkInit ==
  /\ LockInit
  /\ CompareOff
  /\ DirOff
  /\ tree \in Trees
  /\ wpc = "call"
  /\ wcur = [node |-> 1, depth |-> 0]
  /\ wstack = <<>>
  /\ wret = None
  /\ visited = <<>>
  /\ results = <<>>
  /\ fret = None
  /\ srch = [kind |-> "any"]

\* the visitor of a walk of kind "any" answers whatever it likes; it appends
\* to results only files for which it answers nil
VisitorAnswers(n, d, e) ==
  IF srch.kind = "any"
    THEN {Answer(sig, rec, 0, <<>>) : sig \in Signals,
                                     rec \in {b \in BOOLEAN : b => (e = None /\ ~IsDir(n))}}
           \ {Answer(sig, TRUE, 0, <<>>) : sig \in Signals \ {Nil}}
    ELSE Answers(n, d, e)

\* os.Lstat, os.ReadDir and ReadFileLines can fail in a walk with an
\* arbitrary visitor and in a search on a faulty file system
MayFail == srch.kind = "any" \/ srch.faulty

\* part_003:113-118 (196-200, 297-303, 372-376, 438-442, 513-517)  the
\* SearchResult appended for entry n
ResultOf(n, a) ==
  IF srch.kind = "any" THEN n
  ELSE [node |-> n, by |-> srch.kind, line |-> a.line, text |-> a.text]

\* one invocation of the visitor fn(path, info, depth, err) that answers a
Visit(n, d, e, a) ==
  /\ visited' = Append(visited, [node |-> n, depth |-> d, err |-> e, sig |-> a.sig])
  /\ results' = IF a.rec THEN Append(results, ResultOf(n, a)) ELSE results

\* part_003:143-161  regexp.Compile rejects the expression "("
CompileFails == srch.kind = "regex" /\ srch.pattern = <<"(">>

\* part_003:541-564  os.Lstat (os.Stat for a followed symlink), the visitor,
\* and what its answer leads to
WalkVisit ==
  /\ wpc = "call"
  /\ ~CompileFails
  /\ \E lstatOk \in IF MayFail THEN BOOLEAN ELSE {TRUE} :
       LET n == wcur.node
       IN IF ~lstatOk
            THEN \E a \in VisitorAnswers(n, wcur.depth, "lstat") :
                   /\ Visit(n, wcur.depth, "lstat", a)
                   /\ wret' = a.sig
                   /\ wpc' = "ret"
            ELSE \E a \in VisitorAnswers(n, wcur.depth, None) :
                   /\ Visit(n, wcur.depth, None, a)
                   /\ IF a.sig # Nil
                        THEN /\ wret' = IF SkipsSubtree(n, a.sig) THEN Nil ELSE a.sig
                             /\ wpc' = "ret"
                        ELSE IF ~IsDir(n)
                               THEN wret' = Nil /\ wpc' = "ret"
                               ELSE wret' = None /\ wpc' = "readdir"
  /\ UNCHANGED <<tree, wcur, wstack, fret, srch, lockVars, cmpVars, dirVars>>

\* part_003:566-569  os.ReadDir; on failure the visitor is asked again
WalkReadDir ==
  /\ wpc = "readdir"
  /\ \E readOk \in IF MayFail THEN BOOLEAN ELSE {TRUE} :
       IF readOk
         THEN /\ wstack' = Append(wstack, [node |-> wcur.node, depth |-> wcur.depth,
                                          rest |-> ReadDir(wcur.node)])
              /\ wpc' = "loop"
              /\ UNCHANGED <<wret, visited, results>>
         ELSE /\ \E a \in VisitorAnswers(wcur.node, wcur.depth, "readdir") :
                   /\ Visit(wcur.node, wcur.depth, "readdir", a)
                   /\ wret' = a.sig
              /\ wpc' = "ret"
              /\ UNCHANGED wstack
  /\ UNCHANGED <<tree, wcur, fret, srch, lockVars, cmpVars, dirVars>>

\* part_003:571-573, 583  for _, entry := range entries: the next recursive
\* call, or return nil after the last entry
WalkLoop ==
  /\ wpc = "loop"
  /\ LET top == wstack[Len(wstack)]
     IN IF top.rest = <<>>
          THEN /\ wstack' = SubSeq(wstack, 1, Len(wstack) - 1)
               /\ wret' = Nil
               /\ wpc' = "ret"
               /\ UNCHANGED wcur
          ELSE /\ wcur' = [node |-> Head(top.rest), depth |-> ChildDepth(top.depth)]
               /\ wstack' = [wstack EXCEPT ![Len(wstack)].rest = Tail(top.rest)]
               /\ wpc' = "call"
               /\ UNCHANGED wret
  /\ UNCHANGED <<tree, visited, results, fret, srch, lockVars, cmpVars, dirVars>>

\* part_003:574-580  the recursive call returned into its directory's loop
WalkReturn ==
  /\ wpc = "ret"
  /\ wstack # <<>>
  /\ IF wret # Nil /\ StopsLoop(wret)
       THEN /\ wstack' = SubSeq(wstack, 1, Len(wstack) - 1)
            /\ UNCHANGED <<wret, wpc>>
       ELSE /\ wpc' = "loop"
            /\ wret' = None
            /\ UNCHANGED wstack
  /\ UNCHANGED <<tree, wcur, visited, results, fret, srch, lockVars, cmpVars, dirVars>>

\* part_003:125, 208, 319, 385, 451, 526  the error a failed search returns
SearchError == IF srch.kind = "content" THEN ErrSearchContent ELSE ErrSearchFiles

\* part_003:124-133  FindFiles after walkWithDepth returned
FindFilesReturn ==
  /\ wpc = "ret"
  /\ wstack = <<>>
  /\ fret' = IF SearchFailed(wret)
               THEN [results |-> <<>>, err |-> SearchError]
               ELSE [results |-> results, err |-> Nil]
  /\ wpc' = "done"
  /\ UNCHANGED <<tree, wcur, wstack, wret, visited, results, srch, lockVars, cmpVars, dirVars>>

WalkNext ==
  \/ WalkVisit
  \/ WalkReadDir
  \/ WalkLoop
  \/ WalkReturn
  \/ FindFilesReturn

SpecWalk == WalkInit /\ [][WalkNext]_vars

(***************************************************************************)
(* The six search entry points                                             *)
(***************************************************************************)
Kinds == {"name", "regex", "content", "size", "time", "perm"}

\* entry i is called Letters[i], with a leading "." when it is hidden
Letters == <<"a", "B", "c", "d", "e", "f">>

EntryName(i, hidden) == IF hidden THEN <<".", Letters[i]>> ELSE <<Letters[i]>>

\* what the visitors read of an entry besides its name: is its extension
\* one of isTextFile's (part_003:615-635), its lines, size, modification
\* time and permission bits
NoAttr == [text |-> FALSE, lines |-> <<>>, size |-> 0, mtime |-> 1, perm |-> {}]

\* file contents: no line with the search string "x", the string on line 2,
\* on lines 1 and 2, inside a longer word only
Contents == {<<<<"y">>>>,
             <<<<"y">>, <<"y", " ", "x">>>>,
             <<<<"x", " ", "y">>, <<"x">>>>,
             <<<<"x", "y">>>>}

FileAttrs(kind) ==
  CASE kind = "content" ->
         {[NoAttr EXCEPT !.text = TRUE, !.lines = l] : l \in Contents}
           \cup {[NoAttr EXCEPT !.lines = <<<<"x">>>>]}
    [] kind = "size" -> {[NoAttr EXCEPT !.size = z] : z \in 0..2}
    [] kind = "time" -> {[NoAttr EXCEPT !.mtime = m] : m \in 1..3}
    [] kind = "perm" -> {[NoAttr EXCEPT !.perm = q] : q \in {{"r"}, {"r", "w"}}}
    [] OTHER -> {NoAttr}

\* os.ReadDir lists a directory sorted by name: a hidden entry ("." sorts
\* before every letter) comes before its visible siblings
SortedNames(t, hidden) ==
  \A i, j \in DOMAIN t : (i < j /\ t[i].parent = t[j].parent /\ hidden[j]) => hidden[i]

\* the namings of the entries of t: at most one entry is hidden
Hiddens(t) ==
  {g \in [DOMAIN t -> BOOLEAN] :
     /\ SortedNames(t, g)
     /\ \A i, j \in DOMAIN t : (g[i] /\ g[j]) => i = j}

\* the attributes of the entries of t: directories carry none
Attrs(t, kind) ==
  {f \in [DOMAIN t -> FileAttrs(kind) \cup {NoAttr}] :
     \A i \in DOMAIN t : f[i] \in IF t[i].dir THEN {NoAttr} ELSE FileAttrs(kind)}

Entry(e, i, hidden, a) ==
  [parent |-> e.parent, dir |-> e.dir, name |-> EntryName(i, hidden),
   text |-> a.text, lines |-> a.lines, size |-> a.size, mtime |-> a.mtime, perm |-> a.perm]

\* the trees of up to maxn entries a search of the given kind walks
SearchTrees(kind, maxn) ==
  UNION {UNION {{[i \in DOMAIN t |-> Entry(t[i], i, h[i], a[i])] : a \in Attrs(t, kind)} :
                h \in Hiddens(t)} :
         t \in {u \in Trees : Len(u) <= maxn}}

\* part_000: searchOptions; defaultSearchOptions() is maxDepth -1, minDepth
\* 0, caseSensitive, no wholeWord, no ignoreHidden, limitResults -1, no
\* include or exclude patterns
MaxDepths == {-1, 1}
MinDepths == {0, 2}
Limits == {-1, 1}
IncludeLists == {<<>>, <<<<"c">>, <<"d">>>>, <<<<"[">>>>}
ExcludeLists == {<<>>, <<<<"c">>>>}

Options(kind) ==
  [maxDepth : IF kind = "name" THEN MaxDepths ELSE {-1},
   minDepth : IF kind = "name" THEN MinDepths ELSE {0},
   caseSensitive : BOOLEAN,
   wholeWord : IF kind = "content" THEN BOOLEAN ELSE {FALSE},
   ignoreHidden : BOOLEAN,
   limitResults : Limits,
   includePatterns : IncludeLists,
   excludePatterns : ExcludeLists]

\* the arguments of the entry points: pattern (glob, regular expression or
\* search string), minSize and maxSize, after and before, mode and exact
NoArgs ==
  [pattern |-> <<>>, minSize |-> -1, maxSize |-> -1, after |-> 0, before |-> 0,
   mode |-> {}, exact |-> FALSE]

Arguments(kind) ==
  CASE kind = "name" -> {[NoArgs EXCEPT !.pattern = p] : p \in {<<"*">>, <<"b">>, <<"[">>}}
    [] kind = "regex" -> {[NoArgs EXCEPT !.pattern = p] : p \in {<<"b">>, <<"(">>}}
    [] kind = "content" -> {[NoArgs EXCEPT !.pattern = <<"x">>]}
    [] kind = "size" -> {[NoArgs EXCEPT !.minSize = lo, !.maxSize = hi] :
                           lo \in {-1, 1}, hi \in {-1, 1}}
    [] kind = "time" -> {[NoArgs EXCEPT !.after = lo, !.before = hi] :
                           lo \in {0, 1}, hi \in {0, 3}}
    [] kind = "perm" -> {[NoArgs EXCEPT !.mode = {"r"}, !.exact = x] : x \in BOOLEAN}

SearchCall(kind, a, o, faulty) ==
  [kind |-> kind, pattern |-> a.pattern, minSize |-> a.minSize, maxSize |-> a.maxSize,
   after |-> a.after, before |-> a.before, mode |-> a.mode, exact |-> a.exact,
   opts |-> o, faulty |-> faulty]

\* the calls made: case-insensitive ones without include and exclude lists,
\* the malformed include list with FindFiles(root, "*", ...) only
Combined(kind, a, o) ==
  /\ ~o.caseSensitive => (o.includePatterns = <<>> /\ o.excludePatterns = <<>>)
  /\ o.includePatterns = <<<<"[">>>> => (kind = "name" /\ a.pattern = <<"*">>)

CallsOf(kind) ==
  {c \in {SearchCall(kind, a, o, faulty) :
            a \in Arguments(kind), o \in Options(kind), faulty \in BOOLEAN} :
     Combined(kind, c, c.opts)}

SearchCalls == UNION {CallsOf(kind) : kind \in Kinds}

\* FindFiles walks the trees of up to MaxNodes entries, the other entry
\* points those of one entry less, and a faulty file system those of two
\* entries less
TreeBound(call) ==
  (IF call.kind = "name" THEN MaxNodes ELSE MaxNodes - 1) - (IF call.faulty THEN 1 ELSE 0)

\* a search entry point is called: opts, results, resultsFound are set up
\* (part_003:36-43) and walkWithDepth(root, 0, ...) is about to run
FindInit ==
  /\ LockInit
  /\ CompareOff
  /\ DirOff
  /\ srch \in SearchCalls
  /\ tree \in SearchTrees(srch.kind, TreeBound(srch))
  /\ wpc = "call"
  /\ wcur = [node |-> 1, depth |-> 0]
  /\ wstack = <<>>
  /\ wret = None
  /\ visited = <<>>
  /\ results = <<>>
  /\ fret = None

\* part_003:151-161  FindFilesByRegex returns ErrInvalidRegex without walking
RegexReject ==
  /\ wpc = "call"
  /\ CompileFails
  /\ fret' = [results |-> <<>>, err |-> ErrInvalidRegex]
  /\ wpc' = "done"
  /\ UNCHANGED <<tree, wcur, wstack, wret, visited, results, srch, lockVars, cmpVars, dirVars>>

FindNext ==
  \/ WalkNext
  \/ RegexReject

SpecFind == FindInit /\ [][FindNext]_vars

\* the Go scheduler runs every runnable goroutine: a call that can move on
\* (its next statement is not a Lock() on a held mutex) eventually does
LockStep(g) ==
  \/ LockFile_Lock(g) \/ LockFile_Check(g) \/ LockFile_Open(g)
  \/ Unlock_Lock(g) \/ Unlock_Check(g) \/ Unlock_Close(g) \/ Unlock_Delete(g) \/ Unlock_Mark(g)
  \/ Write_Lock(g) \/ Write_Check(g) \/ Write_Truncate(g) \/ Write_Seek(g)
  \/ Write_Write(g) \/ Write_Sync(g)

SpecFair == Spec /\ \A g \in Callers : WF_vars(LockStep(g))

(***************************************************************************)
(* Claims about the lock manager                                           *)
(***************************************************************************)
HeldOn(p) == {l \in held : fl[l].path = p}

InWrite(l) == {g \in Goroutines : arg[g].lock = l /\ pc[g] \in {"wr_check", "wr_trunc", "wr_seek", "wr_write", "wr_sync"}}

InUnlock(l) == {g \in Goroutines : arg[g].lock = l /\ pc[g] \in {"ul_check", "ul_close", "ul_delete", "ul_mark"}}

\* C1: for each path at most one FileLock is held at any time (held: from the
\* return of its LockFile to the registry removal by its Unlock), the held
\* lock is the one the registry names, and the registry names no other lock
C1_MutualExclusion ==
  \A p \in Paths :
    /\ Cardinality(HeldOn(p)) <= 1
    /\ \A l \in HeldOn(p) : lockManager[p] = l
    /\ lockManager[p] # 0 => lockManager[p] \in HeldOn(p)

\* two FileLocks of one path exist, the first released, the second held
C1_Witness ==
  \E l1, l2 \in DOMAIN fl :
    /\ l1 < l2 /\ fl[l1].path = fl[l2].path
    /\ l1 \notin held /\ l2 \in held /\ unlocks[l1] = 1

Returned == {g \in Goroutines : result[g] \notin {None, Pending}}

Winners == {g \in Returned : result[g] = Ok}

\* C2: of the concurrent LockFile calls on one unlocked path at most one
\* returns a lock; when all have returned and none failed on MkdirAll or
\* OpenFile, exactly one returned a lock and every other one the
\* already-locked error
C2_ExactlyOneAcquires ==
  /\ Cardinality(Winners) <= 1
  /\ \A g \in Returned \ Winners : result[g] \in {ErrFileAlreadyLocked, ErrFileLock}
  /\ (Returned = Goroutines /\ \A g \in Goroutines : result[g] # ErrFileLock)
       => /\ Cardinality(Winners) = 1
          /\ \A g \in Goroutines \ Winners : result[g] = ErrFileAlreadyLocked

\* all calls returned: one lock, the others already-locked
C2_Witness ==
  /\ Returned = Goroutines
  /\ Cardinality(Winners) = 1
  /\ \A g \in Goroutines \ Winners : result[g] = ErrFileAlreadyLocked

\* the step returns goroutine g from a call of operation op
Returns(g, op) == arg[g].op = op /\ pc[g] # "idle" /\ pc'[g] = "idle"

C3_Step(g) ==
  Returns(g, "LockFile") =>
    LET p == arg[g].path
    IN /\ (HeldOn(p) # {}) <=> (result'[g] = ErrFileAlreadyLocked)
       /\ HeldOn(p) = {} => result'[g] \in {Ok, ErrFileLock}
       /\ result'[g] = Ok <=> (held' = held \cup {Len(fl')} /\ Len(fl') = Len(fl) + 1)

C4_State ==
  \A l \in DOMAIN fl :
    /\ unlocks[l] <= 1
    /\ unlocks[l] = 1 =>
         /\ ~fl[l].file /\ ~fl[l].isLocked
         /\ lockManager[fl[l].path] # l /\ l \notin held
    /\ \A g \in InUnlock(l) : pc[g] # "ul_check" => unlocks[l] = 0

C4_Step(g) ==
  Returns(g, "Unlock") =>
    LET l == arg[g].lock
    IN /\ result'[g] \in {Ok, ErrFileNotLocked, ErrFileLock}
       /\ (unlocks[l] = 1) <=> (result'[g] = ErrFileNotLocked)
       /\ result'[g] = Ok =>
            /\ fl[l].isLocked /\ ~fl'[l].isLocked /\ ~fl'[l].file
            /\ lockManager'[fl[l].path] # l
            /\ unlocks'[l] = 1

\* C4: an Unlock that returns nil has closed the handle, removed the lock
\* from the registry and marked it unlocked; an Unlock of a lock that a
\* former Unlock released returns the not-locked error, and no other Unlock
\* does; so at most one Unlock of a FileLock ever returns nil
C4_UnlockOnce == [](C4_State) /\ [][\A g \in Goroutines : C4_Step(g)]_vars

\* a lock was released and a further Unlock of it got the not-locked error
C4_Witness ==
  \E g \in Goroutines, l \in DOMAIN fl :
    /\ Len(fl) = 1 /\ unlocks[l] = 1
    /\ arg[g].op = "Unlock" /\ pc[g] = "idle" /\ result[g] = ErrFileNotLocked

C5_Step(g) ==
  (pc[g] = "lf_check" /\ HeldOn(arg[g].path) # {} /\ pc'[g] # pc[g]) =>
    /\ pc'[g] = "idle" /\ result'[g] = ErrFileAlreadyLocked
    /\ lockManager' = lockManager /\ held' = held /\ fl' = fl

C6_WritesSerialized ==
  \A l \in DOMAIN fl :
    /\ Cardinality(InWrite(l) \cup InUnlock(l)) <= 1
    /\ \A g \in InWrite(l) \cup InUnlock(l) : fl[l].mu = g
    /\ (l \in held /\ lastW[l].st = Ok) => disk[fl[l].path].data = lastW[l].data

\* two Writes through the only lock have returned nil and the file holds
\* the data of the later one
C6_Witness ==
  /\ Len(fl) = 1 /\ held = {1}
  /\ \E g1, g2 \in Goroutines :
       /\ g1 # g2
       /\ arg[g1].op = "Write" /\ pc[g1] = "idle" /\ result[g1] = Ok
       /\ arg[g2].op = "Write" /\ pc[g2] = "idle" /\ result[g2] = Ok
  /\ lastW[1].st = Ok /\ disk[fl[1].path].data = lastW[1].data

\* C7: under fair scheduling no call stays blocked on fl.mu or lockMu: every
\* LockFile, Unlock and Write call that was started returns, so (the number
\* of calls being bounded by MaxCalls) every goroutine ends up idle for good
C7_NoDeadlock == <>[](\A g \in Callers : pc[g] = "idle")

\* an Unlock holds its lock's mutex and waits for the registry mutex, which
\* a LockFile holds, while another call waits for the lock's mutex
C7_Witness ==
  \E g1, g2 \in Goroutines :
    /\ pc[g1] = "ul_delete" /\ lockMu = g2 /\ g1 # g2

(***************************************************************************)
(* Claims about the walker                                                 *)
(***************************************************************************)
RECURSIVE TreeDepth(_)
TreeDepth(n) == IF tree[n].parent = 0 THEN 0 ELSE 1 + TreeDepth(tree[n].parent)

RECURSIVE Ancestors(_)
Ancestors(n) ==
  IF tree[n].parent = 0 THEN {} ELSE {tree[n].parent} \cup Ancestors(tree[n].parent)

Visits == 1..Len(visited)

VisitedNodes == {visited[i].node : i \in Visits}

Stopped == Len(visited) > 0 /\ visited[Len(visited)].sig = EOF

\* C8: once the visitor has answered io.EOF it is not invoked again, every
\* enclosing walkWithDepth call returns io.EOF without resuming its loop, and
\* the search function returns the results gathered so far with a nil error
C8_StopSignal ==
  /\ \A i \in Visits : visited[i].sig = EOF => i = Len(visited)
  /\ Stopped =>
       /\ wpc \in {"ret", "done"}
       /\ wret = EOF
       /\ wpc = "done" => (wstack = <<>> /\ fret = [results |-> results, err |-> Nil])

\* the visitor stopped the walk below the root, after a result was recorded
\* and before the last entry of the tree was reached
C8_Witness ==
  /\ wpc = "done" /\ Stopped
  /\ visited[Len(visited)].depth >= 1
  /\ results # <<>>
  /\ VisitedNodes # Nodes

AllContinue == \A i \in Visits : visited[i].sig = Nil /\ visited[i].err = None

\* C9: when no Lstat or ReadDir failed and the visitor always answered nil,
\* the finished walk has invoked the visitor exactly once per entry of the
\* tree, the root first with depth 0, every entry with the depth of its
\* parent plus 1, and every directory before its children
C9_VisitsAll ==
  (wpc = "done" /\ AllContinue) =>
    /\ Len(visited) = Len(tree)
    /\ VisitedNodes = Nodes
    /\ visited[1].node = 1 /\ visited[1].depth = 0
    /\ \A i \in Visits : visited[i].depth = TreeDepth(visited[i].node)
    /\ \A i, j \in Visits :
         tree[visited[j].node].parent = visited[i].node => i < j

\* a finished walk of a tree of four entries, one of them two levels down
C9_Witness ==
  /\ wpc = "done" /\ AllContinue
  /\ Len(tree) >= 4
  /\ \E n \in Nodes : TreeDepth(n) = 2

\* the directories for which the visitor answered filepath.SkipDir
Skipped ==
  {visited[i].node : i \in {k \in Visits : visited[k].sig = SkipDir /\ visited[k].err = None
                                           /\ IsDir(visited[k].node)}}

OnlySkips ==
  \A i \in Visits :
    /\ visited[i].err = None
    /\ visited[i].sig = Nil \/ (visited[i].sig = SkipDir /\ IsDir(visited[i].node))

\* C10: no entry below a directory the visitor answered filepath.SkipDir
\* for is ever visited; when the visitor only continued or skipped
\* directories (and no Lstat or ReadDir failed) the finished walk has
\* visited every entry that has no skipped ancestor exactly once and
\* returned no error
C10_SkipSubtree ==
  /\ \A i \in Visits : Ancestors(visited[i].node) \cap Skipped = {}
  /\ (wpc = "done" /\ OnlySkips) =>
       /\ VisitedNodes = {n \in Nodes : Ancestors(n) \cap Skipped = {}}
       /\ Len(visited) = Cardinality(VisitedNodes)
       /\ wret = Nil
       /\ fret = [results |-> results, err |-> Nil]

\* a directory with a child was skipped and a later sibling of it visited
C10_Witness ==
  /\ wpc = "done" /\ OnlySkips
  /\ \E i, j \in Visits :
       /\ i < j
       /\ visited[i].node \in Skipped
       /\ \E c \in Nodes : tree[c].parent = visited[i].node
       /\ tree[visited[j].node].parent = tree[visited[i].node].parent

\* the visits the visitor answered with an error that walkWithDepth treats
\* as neither the stop signal nor a directory skip (part_003:555-559, 543,
\* 550, 568)
Generic(i) ==
  \/ visited[i].sig = OtherErr
  \/ visited[i].sig = SkipDir /\ (visited[i].err # None \/ ~IsDir(visited[i].node))

\* C11: a generic error the visitor answers for the root ends the walk at
\* once and comes back to the caller (the search reports a failure and no
\* results); a generic error answered for an entry below the root ends the
\* walk of that entry only: nothing of its subtree is visited afterwards,
\* and a finished walk that was not stopped and had no error at the root has
\* visited every later sibling of the entry and returned nil
C11_ErrorPropagation ==
  /\ \A i \in Visits :
       (Generic(i) /\ visited[i].node = 1) =>
         /\ i = Len(visited)
         /\ wpc \in {"ret", "done"} /\ wret = visited[i].sig /\ wstack = <<>>
         /\ wpc = "done" => fret = [results |-> <<>>, err |-> ErrSearchFiles]
  /\ \A i \in Visits :
       (Generic(i) /\ visited[i].node # 1) =>
         \A j \in Visits :
           j > i => /\ visited[j].node # visited[i].node
                    /\ visited[i].node \notin Ancestors(visited[j].node)
  /\ (/\ wpc = "done"
      /\ \A i \in Visits : visited[i].sig # EOF
      /\ \A i \in Visits : Generic(i) => visited[i].node # 1) =>
       /\ wret = Nil
       /\ fret = [results |-> results, err |-> Nil]
       /\ \A i \in Visits :
            Generic(i) =>
              \A s \in Nodes :
                (tree[s].parent = tree[visited[i].node].parent /\ s > visited[i].node)
                  => s \in VisitedNodes

\* the visitor answered a generic error for a directory that has a child;
\* the child was never visited, a later sibling of the directory was, and
\* the search returned its results without an error
C11_Witness ==
  /\ wpc = "done" /\ fret.err = Nil
  /\ \E i, j \in Visits :
       /\ i < j
       /\ visited[i].sig = OtherErr /\ visited[i].err = None
       /\ \E c \in Nodes : tree[c].parent = visited[i].node /\ c \notin VisitedNodes
       /\ tree[visited[j].node].parent = tree[visited[i].node].parent

(***************************************************************************)
(* Claims about the search engine                                          *)
(***************************************************************************)
Searching == srch.kind \in Kinds

Finished == wpc = "done"

\* the main pattern or a pattern of the include or exclude list is malformed
MalformedCall ==
  /\ srch.kind = "name"
  /\ \/ Malformed(srch.pattern)
     \/ \E k \in DOMAIN srch.opts.includePatterns : Malformed(srch.opts.includePatterns[k])
     \/ \E k \in DOMAIN srch.opts.excludePatterns : Malformed(srch.opts.excludePatterns[k])

\* C12: a FindFiles call with a malformed glob pattern (main, include or
\* exclude) returns an error and no result set, whatever the tree and the
\* other options are
C12_MalformedPatternFails ==
  (Finished /\ MalformedCall) => (fret.err # Nil /\ fret.results = <<>>)

\* no os.Lstat, os.ReadDir or ReadFileLines failed and no pattern is malformed
Sound ==
  /\ ~srch.faulty
  /\ ~MalformedCall
  /\ \A i \in Visits : visited[i].err = None

WithinDepth(d) ==
  /\ srch.opts.maxDepth < 0 \/ d <= srch.opts.maxDepth
  /\ d >= srch.opts.minDepth

NotSuppressed(n) == srch.opts.ignoreHidden => Head(tree[n].name) # "."

MatchesSome(n, pats) ==
  \E k \in DOMAIN pats : MatchPattern(tree[n].name, pats[k], srch.opts.caseSensitive).matched

\* the entry point's own predicate on a file
Selected(n) ==
  CASE srch.kind = "name" ->
         /\ ~MatchesSome(n, srch.opts.excludePatterns)
         /\ srch.opts.includePatterns = <<>> \/ MatchesSome(n, srch.opts.includePatterns)
         /\ MatchPattern(tree[n].name, srch.pattern, srch.opts.caseSensitive).matched
    [] srch.kind = "regex" -> RegexMatch(tree[n].name)
    [] srch.kind = "content" ->
         tree[n].text /\ \E k \in DOMAIN tree[n].lines : Found(tree[n].lines[k])
    [] srch.kind = "size" ->
         /\ srch.minSize < 0 \/ tree[n].size >= srch.minSize
         /\ srch.maxSize < 0 \/ tree[n].size <= srch.maxSize
    [] srch.kind = "time" ->
         /\ srch.after = 0 \/ tree[n].mtime > srch.after
         /\ srch.before = 0 \/ tree[n].mtime < srch.before
    [] srch.kind = "perm" ->
         IF srch.exact THEN tree[n].perm = srch.mode ELSE srch.mode \subseteq tree[n].perm

\* no filter keeps the walk from directory a's entries: a is not deeper than
\* maxDepth, not suppressed as hidden and (for FindFiles) not excluded
Entered(a) ==
  /\ srch.opts.maxDepth < 0 \/ TreeDepth(a) <= srch.opts.maxDepth
  /\ NotSuppressed(a)
  /\ srch.kind = "name" => ~MatchesSome(a, srch.opts.excludePatterns)

\* the files that pass every filter of the search, the result cap aside
Eligible ==
  {n \in Nodes :
     /\ ~IsDir(n)
     /\ WithinDepth(TreeDepth(n))
     /\ NotSuppressed(n)
     /\ Selected(n)
     /\ \A a \in Ancestors(n) : Entered(a)}

ResultNodes == {results[k].node : k \in DOMAIN results}

Capped == srch.opts.limitResults > 0

\* at most limit results, and exactly limit when enough files are eligible
C13_Count ==
  (Searching /\ Capped) =>
    /\ Len(results) <= srch.opts.limitResults
    /\ Finished =>
         /\ Len(fret.results) <= srch.opts.limitResults
         /\ (Sound /\ Cardinality(Eligible) >= srch.opts.limitResults) =>
              Len(fret.results) = srch.opts.limitResults

\* a step in which the visitor is invoked, without an error, after the cap
\* was reached
VisitAtCap ==
  /\ Searching /\ Capped
  /\ Len(results) >= srch.opts.limitResults
  /\ Len(visited') = Len(visited) + 1
  /\ visited'[Len(visited')].err = None

\* C13 as claimed: the visitor stops the walk at the first entry reached
\* after the limit-th result was recorded, whichever entry that is
C13_Original ==
  /\ [](C13_Count)
  /\ [][VisitAtCap => visited'[Len(visited')].sig = EOF]_vars

\* C13: a capped search never holds more than limit results and returns
\* exactly limit of them when that many files are eligible; after the
\* limit-th result the visitor answers io.EOF for the first entry within the
\* depth bounds it is invoked for (entries outside the depth bounds are
\* passed over first), and the content search answers io.EOF when it records
\* the limit-th result
C13_ResultCap ==
  /\ [](C13_Count)
  /\ [][/\ (VisitAtCap /\ WithinDepth(visited'[Len(visited')].depth))
          => visited'[Len(visited')].sig = EOF
        /\ (/\ Searching /\ Capped /\ srch.kind = "content"
            /\ Len(results') = srch.opts.limitResults
            /\ Len(results) < srch.opts.limitResults)
          => visited'[Len(visited')].sig = EOF]_vars

\* a capped search of a tree with more eligible files than the cap was
\* stopped by io.EOF and returned exactly limit results
C13_Witness ==
  /\ Searching /\ Capped /\ Finished /\ Sound
  /\ Cardinality(Eligible) > srch.opts.limitResults
  /\ Len(fret.results) = srch.opts.limitResults
  /\ wret = EOF

\* the search did not reach its result cap
NotCut == ~Capped \/ Len(results) < srch.opts.limitResults

InResults(n) == \E k \in DOMAIN fret.results : fret.results[k].node = n

\* C14: with maxDepth d >= 0 no result is deeper than d and nothing below a
\* directory deeper than d is visited (no visit is deeper than d + 1); a
\* finished search, with maxDepth d or with the default -1, has returned
\* every file that is not deeper than d (any depth for -1) and passes the
\* other filters
C14_MaxDepth ==
  Searching =>
    /\ srch.opts.maxDepth >= 0 =>
         /\ \A k \in DOMAIN results : TreeDepth(results[k].node) <= srch.opts.maxDepth
         /\ \A i \in Visits : visited[i].depth <= srch.opts.maxDepth + 1
         /\ \A i \in Visits :
              \A a \in Ancestors(visited[i].node) : TreeDepth(a) <= srch.opts.maxDepth
    /\ (Finished /\ Sound /\ NotCut) =>
         \A n \in Nodes :
           (/\ srch.opts.maxDepth >= 0 => TreeDepth(n) <= srch.opts.maxDepth
            /\ n \in Eligible) => InResults(n)

\* a search with maxDepth 1 returned a file of depth 1 and skipped a
\* directory of depth 2
C14_Witness ==
  /\ Searching /\ Finished /\ Sound
  /\ srch.opts.maxDepth = 1
  /\ \E k \in DOMAIN fret.results : TreeDepth(fret.results[k].node) = 1
  /\ \E i \in Visits : visited[i].depth = 2 /\ visited[i].sig = SkipDir

C16_HiddenSuppressed ==
  (Searching /\ srch.opts.ignoreHidden) =>
    \A k \in DOMAIN results :
      /\ ~IsHidden(tree[results[k].node].name)
      /\ \A a \in Ancestors(results[k].node) \ {1} : ~IsHidden(tree[a].name)

\* C17: FindFiles returns no file whose name matches an exclude pattern;
\* with include patterns configured it returns only files whose name matches
\* one of them; a directory is skipped only for its depth, for being hidden
\* or for matching an exclude pattern, never for matching no include
\* pattern, and a finished search has returned every file that passes the
\* filters, whether the directories above it match an include pattern or not
C17_IncludeExclude ==
  srch.kind = "name" =>
    /\ \A k \in DOMAIN results :
         /\ ~MatchesSome(results[k].node, srch.opts.excludePatterns)
         /\ srch.opts.includePatterns # <<>> =>
              MatchesSome(results[k].node, srch.opts.includePatterns)
    /\ \A i \in Visits :
         (visited[i].err = None /\ visited[i].sig = SkipDir) =>
           \/ srch.opts.maxDepth >= 0 /\ visited[i].depth > srch.opts.maxDepth
           \/ srch.opts.ignoreHidden /\ IsHidden(tree[visited[i].node].name)
           \/ MatchesSome(visited[i].node, srch.opts.excludePatterns)
    /\ (Finished /\ Sound /\ NotCut) => \A n \in Eligible : InResults(n)

\* a file that matches the include list, the exclude list and the main
\* pattern was not returned, and a file was returned from a directory that
\* matches no include pattern
C17_Witness ==
  /\ srch.kind = "name" /\ Finished /\ Sound
  /\ srch.opts.includePatterns # <<>> /\ srch.opts.excludePatterns # <<>>
  /\ \E n \in Nodes :
       /\ ~IsDir(n) /\ n \in VisitedNodes /\ ~InResults(n)
       /\ MatchesSome(n, srch.opts.includePatterns)
       /\ MatchesSome(n, srch.opts.excludePatterns)
       /\ MatchPattern(tree[n].name, srch.pattern, TRUE).matched
  /\ \E k \in DOMAIN fret.results :
       LET q == tree[fret.results[k].node].parent
       IN q # 1 /\ ~MatchesSome(q, srch.opts.includePatterns)

\* C18: whichever entry point runs, no result has a name that matches a
\* configured exclude pattern, and with include patterns configured every
\* result has a name that matches one of them
C18_SamePipeline ==
  Searching =>
    \A k \in DOMAIN results :
      /\ ~MatchesSome(results[k].node, srch.opts.excludePatterns)
      /\ srch.opts.includePatterns # <<>> =>
           MatchesSome(results[k].node, srch.opts.includePatterns)

\* C19: a content search holds at most one result per file; each result
\* carries the number, counted from 1, and the text of the first line of
\* its file that holds the search string; and a finished search has
\* returned a result for every eligible text file that holds the string
C19_OnePerFile ==
  srch.kind = "content" =>
    /\ \A j, k \in DOMAIN results : results[j].node = results[k].node => j = k
    /\ \A k \in DOMAIN results :
         LET r == results[k]
             lines == tree[r.node].lines
         IN /\ r.by = "content"
            /\ r.line \in DOMAIN lines
            /\ r.text = lines[r.line]
            /\ Found(lines[r.line])
            /\ \A j \in 1..(r.line - 1) : ~Found(lines[j])
    /\ (Finished /\ Sound /\ NotCut) => \A n \in Eligible : InResults(n)

\* a file whose lines 1 and 2 both hold the search string was returned
\* once, with line 1
C19_Witness ==
  /\ srch.kind = "content" /\ Finished
  /\ \E k \in DOMAIN fret.results :
       LET r == fret.results[k]
       IN /\ r.line = 1
          /\ Len(tree[r.node].lines) = 2
          /\ Found(tree[r.node].lines[2])


\* ------------------------------------------------------ CompareDirectories

DiffAdded == "added"
DiffRemoved == "removed"
DiffModified == "modified"
DiffSame == "same"
DifferenceTypes == {DiffAdded, DiffRemoved, DiffModified, DiffSame}
ErrCompareDirectory == "ErrCompareDirectory"

\* relative paths as filepath.Rel yields them, one name per element;
\* <<>> is ".", the root of the tree itself
RelPaths == {<<>>, <<"p">>, <<"p", "r">>, <<"q">>}

ParentPath(p) == SubSeq(p, 1, Len(p) - 1)

\* ModTime() has sub-second resolution: the model's clock ticks twice a second
TicksPerSecond == 2

Sizes == {1, 2}
ModTimes == {2, 3, 4}

\* no entry at that path
Missing == [present |-> FALSE, dir |-> FALSE, size |-> 0, mtime |-> 0]

\* the os.FileInfo of a directory; its size and time are never looked at
DirInfo == [present |-> TRUE, dir |-> TRUE, size |-> 0, mtime |-> 2]

FileInfos ==
  {[present |-> TRUE, dir |-> FALSE, size |-> s, mtime |-> m] : s \in Sizes, m \in ModTimes}

Infos == FileInfos \cup {DirInfo, Missing}

\* an entry exists only inside an existing directory
WellFormed(t) ==
  \A p \in RelPaths \ {<<>>} :
    t[p].present => t[ParentPath(p)].present /\ t[ParentPath(p)].dir

CompareTrees == {t \in [RelPaths -> Infos] : WellFormed(t)}

DirectoryExist(t) == t[<<>>].present /\ t[<<>>].dir

\* what filepath.Walk hands to the callback when nothing fails: every entry
\* of the tree, the root included, under its path relative to the root
Collected(t) == [p \in {q \in RelPaths : t[q].present} |-> t[p]]

CompareFail == [diffs |-> <<>>, err |-> ErrCompareDirectory]

Difference(p, t, l, r) == [path |-> p, type |-> t, left |-> l, right |-> r]

\* mutant: modification times compared at full resolution
Unix_Exact(t) == t

\* time.Time.Unix(): whole seconds
Unix(t) == t \div TicksPerSecond

Changed(l, r) == l.size # r.size \/ Unix(l.mtime) # Unix(r.mtime)

\* body of the loop over leftFiles for the key p: what it appends
Compared(p) ==
  IF p \in DOMAIN rightFiles
    THEN IF leftFiles[p].dir = rightFiles[p].dir
           THEN IF ~leftFiles[p].dir
                  THEN IF Changed(leftFiles[p], rightFiles[p])
                         THEN <<Difference(p, DiffModified, leftFiles[p], rightFiles[p])>>
                         ELSE <<Difference(p, DiffSame, leftFiles[p], rightFiles[p])>>
                  ELSE <<>>
           ELSE <<Difference(p, DiffModified, leftFiles[p], rightFiles[p])>>
    ELSE <<Difference(p, DiffRemoved, leftFiles[p], Missing)>>

\* mutant: the loop over rightFiles does not look the key up in leftFiles
OnlyRight_Always(p) == <<Difference(p, DiffAdded, Missing, rightFiles[p])>>

\* mutant: a directory found only in right is not reported
OnlyRight_FilesOnly(p) ==
  IF p \notin DOMAIN leftFiles /\ ~rightFiles[p].dir
    THEN <<Difference(p, DiffAdded, Missing, rightFiles[p])>>
    ELSE <<>>

\* body of the loop over rightFiles for the key p: what it appends
OnlyRight(p) ==
  IF p \notin DOMAIN leftFiles
    THEN <<Difference(p, DiffAdded, Missing, rightFiles[p])>>
    ELSE <<>>

CompareInit ==
  /\ LockInit
  /\ WalkOff
  /\ DirOff
  /\ cleft \in CompareTrees
  /\ cright \in CompareTrees
  /\ cpc = "call"
  /\ leftFiles = <<>>
  /\ rightFiles = <<>>
  /\ todo = {}
  /\ differences = <<>>
  /\ cret = NoCompare
  /\ cprev = NoCompare

\* both arguments must be existing directories
CompareCheck ==
  /\ cpc = "call"
  /\ IF DirectoryExist(cleft) /\ DirectoryExist(cright)
       THEN cpc' = "walkLeft" /\ cret' = cret
       ELSE cpc' = "done" /\ cret' = CompareFail
  /\ UNCHANGED <<cleft, cright, leftFiles, rightFiles, todo, differences, cprev>>
  /\ UNCHANGED <<lockVars, walkVars, dirVars>>

\* filepath.Walk over left; the callback hands back any error it is given,
\* which ends the walk and the call (the half-filled map is dropped)
CompareWalkLeft ==
  /\ cpc = "walkLeft"
  /\ \E ok \in BOOLEAN :
       IF ok
         THEN leftFiles' = Collected(cleft) /\ cpc' = "walkRight" /\ cret' = cret
         ELSE leftFiles' = leftFiles /\ cpc' = "done" /\ cret' = CompareFail
  /\ UNCHANGED <<cleft, cright, rightFiles, todo, differences, cprev>>
  /\ UNCHANGED <<lockVars, walkVars, dirVars>>

\* filepath.Walk over right, then the loop over leftFiles begins
CompareWalkRight ==
  /\ cpc = "walkRight"
  /\ \E ok \in BOOLEAN :
       IF ok
         THEN /\ rightFiles' = Collected(cright)
              /\ todo' = DOMAIN leftFiles
              /\ cpc' = "compare"
              /\ cret' = cret
         ELSE /\ rightFiles' = rightFiles
              /\ todo' = todo
              /\ cpc' = "done"
              /\ cret' = CompareFail
  /\ UNCHANGED <<cleft, cright, leftFiles, differences, cprev>>
  /\ UNCHANGED <<lockVars, walkVars, dirVars>>

\* one iteration of the range over leftFiles; a Go map yields its keys in
\* no particular order. After the last key the range over rightFiles begins.
CompareStep ==
  /\ cpc = "compare"
  /\ \E p \in todo :
       /\ differences' = differences \o Compared(p)
       /\ IF todo = {p}
            THEN todo' = DOMAIN rightFiles /\ cpc' = "added"
            ELSE todo' = todo \ {p} /\ cpc' = "compare"
  /\ UNCHANGED <<cleft, cright, leftFiles, rightFiles, cret, cprev>>
  /\ UNCHANGED <<lockVars, walkVars, dirVars>>

\* one iteration of the range over rightFiles
AddedStep ==
  /\ cpc = "added"
  /\ \E p \in todo :
       /\ differences' = differences \o OnlyRight(p)
       /\ todo' = todo \ {p}
       /\ cpc' = IF todo = {p} THEN "ret" ELSE "added"
  /\ UNCHANGED <<cleft, cright, leftFiles, rightFiles, cret, cprev>>
  /\ UNCHANGED <<lockVars, walkVars, dirVars>>

CompareReturn ==
  /\ cpc = "ret"
  /\ cret' = [diffs |-> differences, err |-> Nil]
  /\ cpc' = "done"
  /\ UNCHANGED <<cleft, cright, leftFiles, rightFiles, todo, differences, cprev>>
  /\ UNCHANGED <<lockVars, walkVars, dirVars>>

\* the caller compares the same two trees again, in the other order
CompareMirror ==
  /\ cpc = "done"
  /\ cprev = NoCompare
  /\ cprev' = cret
  /\ cleft' = cright
  /\ cright' = cleft
  /\ cpc' = "call"
  /\ leftFiles' = <<>>
  /\ rightFiles' = <<>>
  /\ todo' = {}
  /\ differences' = <<>>
  /\ cret' = NoCompare
  /\ UNCHANGED <<lockVars, walkVars, dirVars>>

CompareNext ==
  \/ CompareCheck
  \/ CompareWalkLeft
  \/ CompareWalkRight
  \/ CompareStep
  \/ AddedStep
  \/ CompareReturn
  \/ CompareMirror

SpecCompare == CompareInit /\ [][CompareNext]_vars


\* a whole-second boundary lies at tick k
Boundary(k) == k % TicksPerSecond = 0

\* no whole-second boundary separates the two modification times
SameSecond(a, b) == \A k \in ModTimes : Boundary(k) => (a < k <=> b < k)

FileIn(t, p) == t[p].present /\ ~t[p].dir

\* the path is in one of the trees and is not a directory in both
Classified(p) ==
  /\ cleft[p].present \/ cright[p].present
  /\ ~(cleft[p].present /\ cright[p].present /\ cleft[p].dir /\ cright[p].dir)

\* the classification the comparison owes a classified path
Expected(p) ==
  CASE FileIn(cleft, p) /\ FileIn(cright, p) ->
         IF cleft[p].size = cright[p].size /\ SameSecond(cleft[p].mtime, cright[p].mtime)
           THEN DiffSame
           ELSE DiffModified
    [] cleft[p].present /\ cright[p].present /\ cleft[p].dir # cright[p].dir -> DiffModified
    [] cleft[p].present /\ ~cright[p].present -> DiffRemoved
    [] ~cleft[p].present /\ cright[p].present -> DiffAdded

Compared_Ok == cpc = "done" /\ cret.err = Nil

TypesOf(p) == {cret.diffs[i].type : i \in {j \in DOMAIN cret.diffs : cret.diffs[j].path = p}}

\* C20: when CompareDirectories succeeds, a path that is a file in both trees
\* is reported modified if the sizes or the whole-second modification times
\* differ and same otherwise; a path that is a file on one side and a
\* directory on the other is reported modified; a path only in left is
\* reported removed; a path only in right is reported added.
C20_Classification ==
  Compared_Ok =>
    \A p \in RelPaths : Classified(p) => TypesOf(p) = {Expected(p)}

\* a successful comparison reported a file same whose two modification times
\* differ within one second, and reported a file-against-directory modified
C20_Witness ==
  /\ Compared_Ok
  /\ \E i \in DOMAIN cret.diffs :
       /\ cret.diffs[i].type = DiffSame
       /\ cret.diffs[i].left.mtime # cret.diffs[i].right.mtime
  /\ \E i \in DOMAIN cret.diffs :
       /\ cret.diffs[i].type = DiffModified
       /\ cret.diffs[i].left.dir # cret.diffs[i].right.dir


\* the paths a returned value reports with classification t
PathsOf(ret, t) == {ret.diffs[i].path : i \in {j \in DOMAIN ret.diffs : ret.diffs[j].type = t}}

\* both calls, compare(L, R) and then compare(R, L), have succeeded
Mirrored_Ok == cpc = "done" /\ cprev.err = Nil /\ cret.err = Nil

\* C21: for the two successful calls compare(L, R) and compare(R, L), a path
\* is added in one exactly when it is removed in the other, and it is
\* modified (same) in one exactly when it is modified (same) in the other.
C21_MirrorSymmetry ==
  Mirrored_Ok =>
    /\ PathsOf(cprev, DiffAdded) = PathsOf(cret, DiffRemoved)
    /\ PathsOf(cprev, DiffRemoved) = PathsOf(cret, DiffAdded)
    /\ PathsOf(cprev, DiffModified) = PathsOf(cret, DiffModified)
    /\ PathsOf(cprev, DiffSame) = PathsOf(cret, DiffSame)

\* both calls succeeded; the first reported an added directory and a removed
\* path, the second a modified or same file
C21_Witness ==
  /\ Mirrored_Ok
  /\ \E p \in PathsOf(cprev, DiffAdded) : cleft[p].dir
  /\ PathsOf(cprev, DiffRemoved) # {}
  /\ PathsOf(cret, DiffModified) \cup PathsOf(cret, DiffSame) # {}


\* how many differences the returned value holds for the path
CountOf(p) == Cardinality({i \in DOMAIN cret.diffs : cret.diffs[i].path = p})

InEither(p) == cleft[p].present \/ cright[p].present

\* C22 as stated: when CompareDirectories succeeds, every relative path
\* present in left or right, a directory on both sides included, appears
\* exactly once in the output, with one of the four classifications.
C22_Original ==
  Compared_Ok =>
    \A p \in RelPaths :
      InEither(p) => CountOf(p) = 1 /\ TypesOf(p) \subseteq DifferenceTypes

\* C22: when CompareDirectories succeeds, every relative path present in left
\* or right that is not a directory on both sides appears exactly once in the
\* output, with one of the four classifications; a path that is a directory
\* on both sides, the root among them, does not appear, and neither does a
\* path in neither tree.
C22_EveryPathOnce ==
  Compared_Ok =>
    \A p \in RelPaths :
      /\ Classified(p) => CountOf(p) = 1 /\ TypesOf(p) \subseteq DifferenceTypes
      /\ ~Classified(p) => CountOf(p) = 0

\* a successful comparison of two trees that share the directory p, with an
\* entry on both sides and an entry on one side only
C22_Witness ==
  /\ Compared_Ok
  /\ cleft[<<"p">>].dir /\ cright[<<"p">>].dir
  /\ \E q \in RelPaths : cleft[q].present /\ cright[q].present /\ CountOf(q) = 1
  /\ \E q \in RelPaths : cleft[q].present # cright[q].present /\ CountOf(q) = 1


\* ---------------------------------------------- operations on one tree

ErrWalkDirectory == "ErrWalkDirectory"
ErrCalculateSize == "ErrCalculateSize"

\* the paths of a tree handed to FindDuplicateFiles, CleanEmptyDirectories
\* and CalculateDirectorySize
TreePaths == RelPaths \cup {<<"p", "r", "s">>, <<"q", "t">>}

\* the order in which filepath.Walk reaches the paths: a directory before its
\* entries, the entries of a directory by name
WalkOrder == << <<>>, <<"p">>, <<"p", "r">>, <<"p", "r", "s">>, <<"q">>, <<"q", "t">> >>

\* file contents, as byte sequences
FileData == {<<1>>, <<3>>, <<2, 2>>}

FileEntry(d, m) == [present |-> TRUE, dir |-> FALSE, size |-> Len(d), mtime |-> m, data |-> d]

DirEntry == [present |-> TRUE, dir |-> TRUE, size |-> 0, mtime |-> 2, data |-> <<>>]

NoEntry == [present |-> FALSE, dir |-> FALSE, size |-> 0, mtime |-> 0, data |-> <<>>]

\* an entry exists only inside an existing directory
Nested(t) ==
  \A p \in DOMAIN t \ {<<>>} :
    t[p].present => t[ParentPath(p)].present /\ t[ParentPath(p)].dir

DiskTrees(paths, files) == {t \in [paths -> files \cup {DirEntry, NoEntry}] : Nested(t)}

DirTrees == DiskTrees(TreePaths, {FileEntry(d, 2) : d \in FileData})

\* the number of calls one behaviour makes
MaxOps == 2

\* readDirNames: the names in directory x of tree t, sorted, as paths
Names(t, x) ==
  SelectSeq(WalkOrder,
            LAMBDA c : c \in DOMAIN t /\ c # <<>> /\ ParentPath(c) = x /\ t[c].present)

\* the number of digests the model's hash can produce
DigestSpace == 2

RECURSIVE ByteSum(_)
ByteSum(d) == IF d = <<>> THEN 0 ELSE Head(d) + ByteSum(Tail(d))

\* md5 maps contents of any length to a digest of fixed length, so distinct
\* contents can share a digest; here the digest is the byte sum modulo
\* DigestSpace
MD5(d) == ByteSum(d) % DigestSpace

TreeInit ==
  /\ LockInit
  /\ WalkOff
  /\ cleft \in DirTrees
  /\ cright = <<>>
  /\ cpc = "off"
  /\ leftFiles = <<>>
  /\ rightFiles = <<>>
  /\ todo = {}
  /\ differences = <<>>
  /\ cret = NoCompare
  /\ cprev = NoCompare
  /\ dpc = "idle"
  /\ pending = <<>>
  /\ srcFiles = {}
  /\ fileHashes = <<>>
  /\ dirs = <<>>
  /\ totalSize = 0
  /\ dret = NoReturn
  /\ dcalls = 0
  /\ dfault = FALSE
  /\ initial = <<>>

\* a directory operation starts at position label with a walk from the root
DirCall(label) ==
  /\ dpc = "idle"
  /\ dcalls < MaxOps
  /\ dpc' = label
  /\ pending' = << <<>> >>
  /\ fileHashes' = <<>>
  /\ dirs' = <<>>
  /\ totalSize' = 0
  /\ initial' = <<cleft, cright>>
  /\ UNCHANGED <<srcFiles, dret, dcalls, dfault>>
  /\ UNCHANGED <<lockVars, walkVars, cmpVars>>

\* a directory operation returns
DirReturn(o, v, e) ==
  /\ dret' = [op |-> o, val |-> v, err |-> e]
  /\ dpc' = "idle"
  /\ dcalls' = dcalls + 1
  /\ pending' = <<>>

\* filepath.Walk hands the callback an error for the head of pending: Lstat
\* fails on a path that is gone, and any Lstat or ReadDir can fail
WalkFails(t, ok) == ~ok \/ ~t[Head(pending)].present

\* what filepath.Walk still has to reach after the callback returned nil for
\* the head of pending; the names of a directory were read before the callback
Descend(t) ==
  IF t[Head(pending)].dir
    THEN Names(t, Head(pending)) \o Tail(pending)
    ELSE Tail(pending)

\* ------------------------------------------------- FindDuplicateFiles

FindDuplicateFilesCall == DirCall("dups.walk")

\* fileHashes[hashStr] = append(fileHashes[hashStr], path)
Appended(fh, h, x) ==
  [k \in DOMAIN fh \cup {h} |->
     IF k = h
       THEN (IF h \in DOMAIN fh THEN fh[h] ELSE <<>>) \o <<x>>
       ELSE fh[k]]

\* the groups of more than one path
Duplicates(fh) == [h \in {k \in DOMAIN fh : Len(fh[k]) > 1} |-> fh[h]]

\* the callback of the walk: a failed Lstat, ReadDir, Open or read ends the
\* call; a file is hashed and filed under its digest
DupsVisit ==
  /\ dpc = "dups.walk"
  /\ pending # <<>>
  /\ \E ok \in BOOLEAN :
       IF WalkFails(cleft, ok)
         THEN /\ DirReturn("dups", <<>>, ErrWalkDirectory)
              /\ dfault' = (dfault \/ ~ok)
              /\ UNCHANGED fileHashes
         ELSE /\ pending' = Descend(cleft)
              /\ fileHashes' =
                   IF cleft[Head(pending)].dir
                     THEN fileHashes
                     ELSE Appended(fileHashes, MD5(cleft[Head(pending)].data), Head(pending))
              /\ UNCHANGED <<dpc, dret, dcalls, dfault>>
  /\ UNCHANGED <<srcFiles, dirs, totalSize, initial>>
  /\ UNCHANGED <<lockVars, walkVars, cmpVars>>

DupsReturn ==
  /\ dpc = "dups.walk"
  /\ pending = <<>>
  /\ DirReturn("dups", Duplicates(fileHashes), Nil)
  /\ UNCHANGED <<srcFiles, fileHashes, dirs, totalSize, dfault, initial>>
  /\ UNCHANGED <<lockVars, walkVars, cmpVars>>


\* --------------------------------------------- CalculateDirectorySize

CalculateDirectorySizeCall == DirCall("size.walk")

\* mutant: directories are counted with the size of a block
Counted_Directories(e) == IF e.dir THEN 1 ELSE e.size

\* what the callback adds for an entry
Counted(e) == IF e.dir THEN 0 ELSE e.size

SizeVisit ==
  /\ dpc = "size.walk"
  /\ pending # <<>>
  /\ \E ok \in BOOLEAN :
       IF WalkFails(cleft, ok)
         THEN /\ DirReturn("size", 0, ErrCalculateSize)
              /\ dfault' = (dfault \/ ~ok)
              /\ UNCHANGED totalSize
         ELSE /\ pending' = Descend(cleft)
              /\ totalSize' = totalSize + Counted(cleft[Head(pending)])
              /\ UNCHANGED <<dpc, dret, dcalls, dfault>>
  /\ UNCHANGED <<srcFiles, fileHashes, dirs, initial>>
  /\ UNCHANGED <<lockVars, walkVars, cmpVars>>

SizeReturn ==
  /\ dpc = "size.walk"
  /\ pending = <<>>
  /\ DirReturn("size", totalSize, Nil)
  /\ UNCHANGED <<srcFiles, fileHashes, dirs, totalSize, dfault, initial>>
  /\ UNCHANGED <<lockVars, walkVars, cmpVars>>

\* ---------------------------------------------- CleanEmptyDirectories

CleanEmptyDirectoriesCall == DirCall("clean.walk")

\* first pass: every directory but the root is collected
CleanVisit ==
  /\ dpc = "clean.walk"
  /\ pending # <<>>
  /\ \E ok \in BOOLEAN :
       IF WalkFails(cleft, ok)
         THEN /\ DirReturn("clean", None, ErrWalkDirectory)
              /\ dfault' = (dfault \/ ~ok)
              /\ UNCHANGED dirs
         ELSE /\ pending' = Descend(cleft)
              /\ dirs' =
                   IF cleft[Head(pending)].dir /\ Head(pending) # <<>>
                     THEN Append(dirs, Head(pending))
                     ELSE dirs
              /\ UNCHANGED <<dpc, dret, dcalls, dfault>>
  /\ UNCHANGED <<srcFiles, fileHashes, totalSize, initial, cleft>>
  /\ UNCHANGED <<lockVars, walkVars>>
  /\ UNCHANGED <<cright, cpc, leftFiles, rightFiles, todo, differences, cret, cprev>>

\* strings.Count(dir, separator): the root's own separators are the same for
\* every collected path and are left out
Separators(x) == Len(x)

Swapped(ds, i, j) == [ds EXCEPT ![i] = ds[j], ![j] = ds[i]]

\* the inner loop of the sort, from index j on
RECURSIVE SortInner(_, _, _)
SortInner(ds, i, j) ==
  IF j > Len(ds)
    THEN ds
    ELSE SortInner(IF Separators(ds[i]) < Separators(ds[j]) THEN Swapped(ds, i, j) ELSE ds,
                   i, j + 1)

\* the outer loop of the sort, from index i on
RECURSIVE SortOuter(_, _)
SortOuter(ds, i) ==
  IF i > Len(ds) - 1
    THEN ds
    ELSE SortOuter(SortInner(ds, i, i + 1), i + 1)

\* mutant: the directories are removed in the order of the walk
SortByDepth_Unsorted(ds) == ds

\* "Sort dirs by depth (deepest first)"
SortByDepth(ds) == SortOuter(ds, 1)

\* the walk is over: sort, then the removal loop begins
CleanSort ==
  /\ dpc = "clean.walk"
  /\ pending = <<>>
  /\ dirs' = SortByDepth(dirs)
  /\ dpc' = "clean.remove"
  /\ UNCHANGED <<pending, srcFiles, fileHashes, totalSize, dret, dcalls, dfault, initial>>
  /\ UNCHANGED <<lockVars, walkVars, cmpVars>>

\* DirectoryExist for the path x inside tree t
DirectoryExistAt(t, x) == t[x].present /\ t[x].dir

\* IsEmptyDirectory(dir) answers true
IsEmptyDirectory(t, x, ok) == ok /\ DirectoryExistAt(t, x) /\ Names(t, x) = <<>>

\* one iteration of the removal loop: errors of IsEmptyDirectory skip the
\* directory, errors of DeleteDirectory are dropped
CleanRemove ==
  /\ dpc = "clean.remove"
  /\ dirs # <<>>
  /\ \E ok \in BOOLEAN :
       /\ cleft' = IF IsEmptyDirectory(cleft, Head(dirs), ok)
                     THEN [cleft EXCEPT ![Head(dirs)] = NoEntry]
                     ELSE cleft
       /\ dfault' = (dfault \/ ~ok)
  /\ dirs' = Tail(dirs)
  /\ UNCHANGED <<dpc, pending, srcFiles, fileHashes, totalSize, dret, dcalls, initial>>
  /\ UNCHANGED <<lockVars, walkVars>>
  /\ UNCHANGED <<cright, cpc, leftFiles, rightFiles, todo, differences, cret, cprev>>

CleanReturn ==
  /\ dpc = "clean.remove"
  /\ dirs = <<>>
  /\ DirReturn("clean", None, Nil)
  /\ UNCHANGED <<srcFiles, fileHashes, dirs, totalSize, dfault, initial>>
  /\ UNCHANGED <<lockVars, walkVars, cmpVars>>

TreeNext ==
  \/ FindDuplicateFilesCall
  \/ DupsVisit
  \/ DupsReturn
  \/ CalculateDirectorySizeCall
  \/ SizeVisit
  \/ SizeReturn
  \/ CleanEmptyDirectoriesCall
  \/ CleanVisit
  \/ CleanSort
  \/ CleanRemove
  \/ CleanReturn

SpecTree == TreeInit /\ [][TreeNext]_vars


\* the last directory operation was o and it returned no error
Returned_Ok(o) == dpc = "idle" /\ dret.op = o /\ dret.err = Nil

RegularFile(t, x) == t[x].present /\ ~t[x].dir

\* the paths of the sequence, as a set
Members(g) == {g[i] : i \in DOMAIN g}

\* C23: when FindDuplicateFiles succeeds, every returned group has at least
\* 2 paths, holds only regular files of the tree, and all its paths have
\* identical content; each file is in at most one group, once; any two files
\* with the same content are in the same group.
C23_DuplicateGroups ==
  Returned_Ok("dups") =>
    /\ \A h \in DOMAIN dret.val :
         /\ Len(dret.val[h]) >= 2
         /\ \A x \in Members(dret.val[h]) : RegularFile(cleft, x)
         /\ \A x, y \in Members(dret.val[h]) : cleft[x].data = cleft[y].data
         /\ Cardinality(Members(dret.val[h])) = Len(dret.val[h])
         /\ \A k \in DOMAIN dret.val :
              k # h => Members(dret.val[k]) \cap Members(dret.val[h]) = {}
    /\ \A x, y \in TreePaths :
         /\ x # y
         /\ RegularFile(cleft, x) /\ RegularFile(cleft, y)
         /\ cleft[x].data = cleft[y].data
         => \E h \in DOMAIN dret.val : {x, y} \subseteq Members(dret.val[h])


\* ------------------------------------------------------ SyncDirectories

ErrSyncDirectory == "ErrSyncDirectory"

SyncData == {<<1>>, <<2, 2>>}

SyncTimes == {2, 4}

SyncTrees == DiskTrees(RelPaths, {FileEntry(d, m) : d \in SyncData, m \in SyncTimes})

SyncInit ==
  /\ LockInit
  /\ WalkOff
  /\ cleft \in SyncTrees
  /\ cright \in SyncTrees
  /\ cpc = "off"
  /\ leftFiles = <<>>
  /\ rightFiles = <<>>
  /\ todo = {}
  /\ differences = <<>>
  /\ cret = NoCompare
  /\ cprev = NoCompare
  /\ dpc = "idle"
  /\ pending = <<>>
  /\ srcFiles = {}
  /\ fileHashes = <<>>
  /\ dirs = <<>>
  /\ totalSize = 0
  /\ dret = NoReturn
  /\ dcalls = 0
  /\ dfault = FALSE
  /\ initial = <<>>

SyncDirectoriesCall == DirCall("sync.start")

\* the entry x of tree t lies in an existing directory of t
ParentIsDir(t, x) == x = <<>> \/ DirectoryExistAt(t, ParentPath(x))

\* CopyDirectory up to its walk: src must be a directory (os.Stat), dst is
\* made with MkdirAll, which fails when dst is a file
SyncStart ==
  /\ dpc = "sync.start"
  /\ IF DirectoryExistAt(cleft, <<>>) /\ (cright[<<>>].present => cright[<<>>].dir)
       THEN /\ cright' = [cright EXCEPT ![<<>>] = DirEntry]
            /\ dpc' = "sync.copy"
            /\ UNCHANGED <<pending, dret, dcalls>>
       ELSE /\ DirReturn("sync", None, ErrSyncDirectory)
            /\ UNCHANGED cright
  /\ UNCHANGED <<srcFiles, fileHashes, dirs, totalSize, dfault, initial>>
  /\ UNCHANGED <<lockVars, walkVars>>
  /\ UNCHANGED <<cleft, cpc, leftFiles, rightFiles, todo, differences, cret, cprev>>

\* CreateDirectory(dstPath) fails: os.Mkdir fails and not with "exists"
MkdirFails(t, x) == ~t[x].present /\ ~ParentIsDir(t, x)

\* os.Create(dstPath) fails: the path is a directory, or is not in a directory
CreateFails(t, x) == (t[x].present /\ t[x].dir) \/ ~ParentIsDir(t, x)

\* copyFileWithOptions with overwrite and preserveTimes: content and
\* modification time of the source
Copied(t, x, e) == [t EXCEPT ![x] = FileEntry(e.data, e.mtime)]

\* the directory branch of the callback: an existing entry of any kind counts
\* as the directory (os.IsExist), then its times are set to the source's
MadeDir(t, x, e) ==
  IF t[x].present
    THEN [t EXCEPT ![x].mtime = e.mtime]
    ELSE [t EXCEPT ![x] = DirEntry]

\* the callback of CopyDirectory's walk over src, for the head of pending
SyncCopyVisit ==
  /\ dpc = "sync.copy"
  /\ pending # <<>>
  /\ \E ok \in BOOLEAN :
       LET x == Head(pending)
           e == cleft[x]
       IN IF \/ WalkFails(cleft, ok)
             \/ (e.dir /\ MkdirFails(cright, x))
             \/ (~e.dir /\ CreateFails(cright, x))
            THEN /\ DirReturn("sync", None, ErrSyncDirectory)
                 /\ dfault' = (dfault \/ ~ok)
                 /\ UNCHANGED cright
            ELSE /\ pending' = Descend(cleft)
                 /\ cright' = IF e.dir THEN MadeDir(cright, x, e) ELSE Copied(cright, x, e)
                 /\ UNCHANGED <<dpc, dret, dcalls, dfault>>
  /\ UNCHANGED <<srcFiles, fileHashes, dirs, totalSize, initial>>
  /\ UNCHANGED <<lockVars, walkVars>>
  /\ UNCHANGED <<cleft, cpc, leftFiles, rightFiles, todo, differences, cret, cprev>>

\* the copy is done; the walk over src that fills srcFiles
SyncCollect ==
  /\ dpc = "sync.copy"
  /\ pending = <<>>
  /\ \E ok \in BOOLEAN :
       IF ok
         THEN /\ srcFiles' = {x \in DOMAIN cleft : cleft[x].present}
              /\ dpc' = "sync.remove"
              /\ pending' = << <<>> >>
              /\ UNCHANGED <<dret, dcalls, dfault>>
         ELSE /\ DirReturn("sync", None, ErrSyncDirectory)
              /\ dfault' = TRUE
              /\ UNCHANGED srcFiles
  /\ UNCHANGED <<fileHashes, dirs, totalSize, initial>>
  /\ UNCHANGED <<lockVars, walkVars, cmpVars>>

\* os.RemoveAll / os.Remove: the entry x and everything below it are gone
Removed(t, x) ==
  [y \in DOMAIN t |->
     IF Len(y) >= Len(x) /\ SubSeq(y, 1, Len(x)) = x THEN NoEntry ELSE t[y]]

\* the callback of the walk over dst, for the head of pending: an entry with
\* no counterpart in srcFiles is deleted, a directory with all its contents
SyncRemoveVisit ==
  /\ dpc = "sync.remove"
  /\ pending # <<>>
  /\ \E ok \in BOOLEAN :
       IF WalkFails(cright, ok)
         THEN /\ DirReturn("sync", None, ErrSyncDirectory)
              /\ dfault' = (dfault \/ ~ok)
              /\ UNCHANGED cright
         ELSE /\ pending' = Descend(cright)
              /\ cright' = IF Head(pending) \in srcFiles
                             THEN cright
                             ELSE Removed(cright, Head(pending))
              /\ UNCHANGED <<dpc, dret, dcalls, dfault>>
  /\ UNCHANGED <<srcFiles, fileHashes, dirs, totalSize, initial>>
  /\ UNCHANGED <<lockVars, walkVars>>
  /\ UNCHANGED <<cleft, cpc, leftFiles, rightFiles, todo, differences, cret, cprev>>

SyncReturn ==
  /\ dpc = "sync.remove"
  /\ pending = <<>>
  /\ DirReturn("sync", None, Nil)
  /\ UNCHANGED <<srcFiles, fileHashes, dirs, totalSize, dfault, initial>>
  /\ UNCHANGED <<lockVars, walkVars, cmpVars>>

\* after two (or more) calls of SyncDirectories the caller compares the two trees
CompareAfterSync ==
  /\ dpc = "idle"
  /\ dcalls >= 2
  /\ cpc = "off"
  /\ cpc' = "call"
  /\ UNCHANGED <<cleft, cright, leftFiles, rightFiles, todo, differences, cret, cprev>>
  /\ UNCHANGED <<lockVars, walkVars, dirVars>>

SyncNext ==
  \/ SyncDirectoriesCall
  \/ SyncStart
  \/ SyncCopyVisit
  \/ SyncCollect
  \/ SyncRemoveVisit
  \/ SyncReturn
  \/ CompareAfterSync
  \/ CompareCheck
  \/ CompareWalkLeft
  \/ CompareWalkRight
  \/ CompareStep
  \/ AddedStep
  \/ CompareReturn

SpecSync == SyncInit /\ [][SyncNext]_vars


\* the relative paths under the root of a tree
PathsUnder(t) == {x \in DOMAIN t : t[x].present}

\* a call of SyncDirectories on two existing directory trees has returned
\* and no I/O operation has failed
Synced ==
  /\ dpc = "idle"
  /\ dret.op = "sync"
  /\ ~dfault
  /\ DirectoryExistAt(initial[1], <<>>)
  /\ DirectoryExistAt(initial[2], <<>>)

\* C24: SyncDirectories(src, dst) on any two trees returns without error,
\* and afterwards the relative paths under dst are those under src and every
\* file in dst has the content of its counterpart in src.
C24_Mirror ==
  Synced =>
    /\ dret.err = Nil
    /\ PathsUnder(cright) = PathsUnder(cleft)
    /\ \A x \in PathsUnder(cright) :
         RegularFile(cright, x) =>
           RegularFile(cleft, x) /\ cright[x].data = cleft[x].data

\* C25: after SyncDirectories(A, B) ran twice, the second time without error,
\* a successful CompareDirectories(A, B) reports no path added, removed or
\* modified: every reported path is same.
C25_SyncIdempotent ==
  (Compared_Ok /\ dcalls >= 2 /\ dret.err = Nil /\ ~dfault) =>
    \A i \in DOMAIN cret.diffs : cret.diffs[i].type = DiffSame


\* the tree as it was when the last call began
Before == initial[1]

\* the directory x of tree t holds a file at some depth
HoldsFile(t, x) ==
  \E y \in DOMAIN t :
    /\ RegularFile(t, y)
    /\ Len(y) > Len(x)
    /\ SubSeq(y, 1, Len(x)) = x

\* C26: after CleanEmptyDirectories(root) returned nil, no file was
\* removed, no directory that holds a file at any depth was removed, the root
\* is as it was, nothing was created, and (when no I/O operation failed) no
\* directory below the root is empty.
C26_CleanEmpty ==
  Returned_Ok("clean") =>
    /\ \A x \in TreePaths : RegularFile(Before, x) => cleft[x] = Before[x]
    /\ \A x \in TreePaths :
         DirectoryExistAt(Before, x) /\ HoldsFile(Before, x) => cleft[x] = Before[x]
    /\ cleft[<<>>] = Before[<<>>]
    /\ \A x \in TreePaths : cleft[x].present => Before[x].present
    /\ ~dfault =>
         \A x \in TreePaths \ {<<>>} :
           DirectoryExistAt(cleft, x) => Names(cleft, x) # <<>>

\* a successful clean of a tree that held a directory with nothing but an
\* empty directory in it, next to a directory with a file and an empty
\* directory: the first two are gone
C26_Witness ==
  /\ Returned_Ok("clean")
  /\ ~dfault
  /\ DirectoryExistAt(Before, <<"p", "r">>)
  /\ DirectoryExistAt(Before, <<"p", "r", "s">>)
  /\ ~cleft[<<"p">>].present
  /\ RegularFile(cleft, <<"q", "t">>)

\* the sizes of the regular files of the tree, added up in the walk's order
RECURSIVE SumOfFiles(_, _)
SumOfFiles(t, i) ==
  IF i > Len(WalkOrder)
    THEN 0
    ELSE (IF WalkOrder[i] \in DOMAIN t /\ RegularFile(t, WalkOrder[i])
            THEN Len(t[WalkOrder[i]].data)
            ELSE 0)
         + SumOfFiles(t, i + 1)

\* C27: when CalculateDirectorySize succeeds it returns the sum of the sizes
\* of all regular files at every level under the path; directories add 0, so
\* a tree without files yields 0.
C27_DirectorySize ==
  Returned_Ok("size") => dret.val = SumOfFiles(cleft, 1)

\* a successful call on a tree with files at three levels, of different
\* sizes, and on a tree of directories only
C27_Witness ==
  /\ Returned_Ok("size")
  /\ \/ /\ RegularFile(cleft, <<"q">>)
        /\ RegularFile(cleft, <<"p", "r", "s">>)
        /\ cleft[<<"q">>].size # cleft[<<"p", "r", "s">>].size
        /\ dret.val = 3
     \/ /\ DirectoryExistAt(cleft, <<"p", "r", "s">>)
        /\ DirectoryExistAt(cleft, <<"q", "t">>)
        /\ dret.val = 0

(***************************************************************************)
(* Claims about the registered holder of a path                            *)
(***************************************************************************)
\* the goroutines whose Write on lock l has passed the isLocked check and is
\* at, or past, its Truncate
Writing(l) == {g \in Goroutines : arg[g].lock = l /\ pc[g] \in {"wr_trunc", "wr_seek", "wr_write", "wr_sync"}}

C28_State ==
  \A l \in DOMAIN fl :
    Writing(l) # {} =>
      /\ lockManager[fl[l].path] = l
      /\ unlocks[l] = 0
      /\ Cardinality(Writing(l)) = 1
      /\ \A k \in DOMAIN fl : (k # l /\ fl[k].path = fl[l].path) => Writing(k) = {}

C28_Step(g) ==
  /\ (Returns(g, "Write") /\ unlocks[arg[g].lock] = 1) =>
       /\ result'[g] = ErrFileNotLocked
       /\ disk' = disk
  /\ (pc[g] \in {"wr_lock", "wr_check"} /\ pc'[g] # pc[g]) => disk' = disk

\* C28: a Write that has passed its isLocked check (and so truncates and
\* writes) is on the FileLock the registry names for its path, a lock no
\* Unlock has released, and no Write on another FileLock of that path, nor a
\* second Write on the same one, is past its check at the same time; a Write
\* on a FileLock that an Unlock released returns the not-locked error and
\* leaves the file as it was
C28_RegisteredHolderWrites == [](C28_State) /\ [][\A g \in Goroutines : C28_Step(g)]_vars

\* a Write on a released FileLock has returned the not-locked error while a
\* later FileLock of the same path is registered
C28_Witness ==
  \E l1, l2 \in DOMAIN fl :
    /\ l1 # l2 /\ fl[l1].path = fl[l2].path
    /\ unlocks[l1] = 1 /\ lastW[l1].st = ErrFileNotLocked
    /\ lockManager[fl[l2].path] = l2

C29_State ==
  \A p \in Paths :
    lockManager[p] # 0 =>
      /\ fl[lockManager[p]].path = p
      /\ fl[lockManager[p]].isLocked
      /\ unlocks[lockManager[p]] = 0

\* a step that changes the registry entry of a path that has one
C29_Step(p) ==
  (lockManager[p] # 0 /\ lockManager'[p] # lockManager[p]) =>
    /\ lockManager'[p] = 0
    /\ \E g \in Goroutines :
         /\ arg[g].op = "Unlock" /\ arg[g].lock = lockManager[p]
         /\ pc[g] = "ul_delete" /\ pc'[g] = "ul_mark"

\* the return of an Unlock on a FileLock that a former Unlock released
C29_StaleStep(g) ==
  (Returns(g, "Unlock") /\ unlocks[arg[g].lock] = 1) =>
    /\ result'[g] = ErrFileNotLocked
    /\ lockManager' = lockManager
    /\ \A k \in DOMAIN fl : k # arg[g].lock => fl'[k] = fl[k]

\* C29: an Unlock on a FileLock that was released returns the not-locked
\* error and leaves the registry and every other FileLock as they were, so
\* the entry of a later FileLock of the path stays and that lock stays
\* locked; an entry of the registry changes only by being removed, in the
\* Unlock of the FileLock it names, and an entry always names a locked,
\* unreleased FileLock of its path
C29_StaleReleaseKeepsHolder ==
  /\ [](C29_State)
  /\ [][(\A p \in Paths : C29_Step(p)) /\ (\A g \in Goroutines : C29_StaleStep(g))]_vars

\* L1 was released, L2 of the same path is registered and locked, and a
\* further Unlock (of L1: no other lock was released) returned not-locked
C29_Witness ==
  \E l1, l2 \in DOMAIN fl :
    /\ l1 # l2 /\ fl[l1].path = fl[l2].path
    /\ unlocks[l1] = 1 /\ unlocks[l2] = 0
    /\ lockManager[fl[l2].path] = l2 /\ fl[l2].isLocked
    /\ \E g \in Goroutines : arg[g].op = "Unlock" /\ result[g] = ErrFileNotLocked

C30_Step(g) ==
  /\ (Returns(g, "LockFile") /\ result'[g] = ErrFileAlreadyLocked) =>
       LET h == lockManager[arg[g].path]
       IN /\ h # 0 /\ fl[h].isLocked /\ unlocks[h] = 0
          /\ lockManager' = lockManager /\ fl' = fl /\ disk' = disk
          /\ held' = held
          /\ lockMu' = 0
  /\ (arg[g].op = "LockFile" /\ pc[g] = "lf_lock" /\ pc'[g] # pc[g]) =>
       /\ lockManager' = lockManager /\ fl' = fl /\ disk' = disk

\* C30: a LockFile(P) that returns the already-locked error leaves the
\* registry (the entries of all paths), every FileLock (the holder of P, still
\* locked, among them) and the files as they were, and leaves the registry
\* mutex free, so that the holder's Write and Unlock go on as without it
C30_FailedAcquireChangesNothing == [][\A g \in Goroutines : C30_Step(g)]_vars

\* the only FileLock ever made was written through and released with
\* success, and a LockFile on its path has returned already-locked
C30_Witness ==
  /\ Len(fl) = 1 /\ lastW[1].st = Ok /\ unlocks[1] = 1
  /\ \E g \in Goroutines : arg[g].op = "LockFile" /\ result[g] = ErrFileAlreadyLocked

====
